---- MODULE Spec2Model ----
(***************************************************************************)
(* Verification model of the CAST-2 engines and layer stacks.              *)
(*                                                                         *)
(*   SpecAcc    action_accuracy applied to one batch                       *)
(*   SpecEnc    the places that compose a label-space action id            *)
(*   SpecPass   one pass over a data loader: the prototype selection of    *)
(*              the both-prompt engine and the evaluation loops of the     *)
(*              both-prompt and open-vocabulary engines                    *)
(*   SpecTrain  train_one_epoch of the three engines                       *)
(*   SpecBlocks the Blocks STCrossTransformer builds and one forward       *)
(*              through them (audio_cast and beats_Bsquare)                *)
(*   SpecCell   the cross-modal cells of one Block.forward                 *)
(*   SpecAttn   one call of a cross-modal cell, token by token             *)
(*   SpecCtor   the widths of audio_cast's directed cross-attentions as    *)
(*              built and as called                                        *)
(*   SpecFwd    STCrossTransformer.forward from the stems to the heads     *)
(*   SpecOvStep one iteration of the open-vocabulary train_one_epoch, by   *)
(*              label                                                      *)
(*   SpecLogits the cosine-similarity logits of the prompt engines         *)
(*   SpecEval   validation_one_epoch and final_test: meters, result lines  *)
(*   SpecMerge  merge and compute_video on the result lines                *)
(*                                                                         *)
(* Each specification drives its own group of variables; the variables of  *)
(* the other groups stay at their idle values.                             *)
(***************************************************************************)
EXTENDS Integers, Sequences, FiniteSets

VARIABLES
    \* ---- action_accuracy on one batch -------------------------------
    acc_pc,          \* "ready" before the call, "done" after it
    output_noun,     \* per row: noun logits, a score for every noun column
    output_verb,     \* per row: verb logits, a score for every verb column
    acc_labels,      \* per row: <<noun label, verb label>> (targets[:,0], targets[:,1])
    acc_target,      \* per row: the composed action target handed to action_accuracy
    acc_topk,        \* the topk tuple of the call
    acc_res          \* the returned list, one value per k of topk, as <<numerator, denominator>>

accVars == <<acc_pc, output_noun, output_verb, acc_labels, acc_target, acc_topk, acc_res>>

VARIABLES
    \* ---- the places that compose a label-space action id ----------------
    enc_pc,          \* "ready", "target" (target composed), "done" (prediction composed)
    enc_label,       \* <<noun label, verb label>> of a sample
    enc_pred,        \* <<predicted noun index, predicted verb index>> of the sample
    enc_tsite,       \* the place that composed the target
    enc_psite,       \* the place that composed the prediction
    enc_target_id,   \* the composed target
    enc_pred_id      \* the composed prediction

encVars == <<enc_pc, enc_label, enc_pred, enc_tsite, enc_psite, enc_target_id, enc_pred_id>>

VARIABLES
    \* ---- one pass over a data loader ------------------------------------
    ps_fn,           \* the function that runs the pass
    ps_ov,           \* args.ov of the open-vocabulary engine
    ps_len_nounlist, \* len(nounlist) of the both-prompt class_list
    ps_loader_len,   \* number of batches the data loader yields
    ps_pc,           \* "running", "returned", "error"
    ps_err,          \* the exception that ended the pass, "none" otherwise
    ps_idx,          \* number of batches taken from the loader so far
    ps_target_verb,  \* per example of the last batch: the verb label (targets[:,1])
    ps_outputs_verb, \* per example of the last batch: the verb logits of the model
    ps_top1_noun,    \* per example of the last batch: top-1 column of noun_logits
    ps_labels,       \* per example of the last batch: the action label (target[:,2])
    ps_nounFeature,  \* the noun prototypes the last batch's noun logits were computed against
    ps_verbFeature,  \* the verb prototypes the last batch's verb logits were computed against
    ps_requests,     \* the text-embedding requests made so far
    ps_string,       \* the local `string` of final_test: "unbound" or "bound"
    ps_pred_actions  \* final_test: per example the decoded action, <<>> while none

psVars == <<ps_fn, ps_ov, ps_len_nounlist, ps_loader_len, ps_pc, ps_err, ps_idx,
            ps_target_verb, ps_outputs_verb,
            ps_top1_noun, ps_labels, ps_nounFeature, ps_verbFeature, ps_requests,
            ps_string, ps_pred_actions>>

VARIABLES
    \* ---- train_one_epoch -------------------------------------------------
    tr_engine,       \* "finetuning", "both_prompt", "prompt_OV"
    tr_scaler,       \* loss_scaler is not None
    tr_has_ema,      \* model_ema is not None
    tr_update_freq,  \* update_freq
    tr_steps,        \* num_training_steps_per_epoch
    tr_loader_len,   \* number of batches the data loader yields
    tr_pc,           \* "start", "running", "returned", "halted", "error"
    tr_err,          \* what ended the process, "none" otherwise
    tr_i,            \* data_iter_step of the next batch
    tr_loss,         \* loss_value of every iteration that computed one
    tr_log,          \* the calls made so far: [step, op]
    tr_start_steps,  \* start_steps
    tr_it            \* the global iteration of every processed micro-step: [step, it]

trVars == <<tr_engine, tr_scaler, tr_has_ema, tr_update_freq, tr_steps, tr_loader_len,
            tr_pc, tr_err, tr_i, tr_loss, tr_log, tr_start_steps, tr_it>>

VARIABLES
    \* ---- a stack of Blocks and one forward through it --------------------
    bl_model,        \* "audio_cast" or "beats_Bsquare"
    bl_cfg,          \* constructor arguments of STCrossTransformer
    bl_blocks,       \* self.blocks: what every Block.__init__ left behind
    bl_pc,           \* "running", "returned", "error"
    bl_layer,        \* index of the next block of the loop over self.blocks
    bl_trace,        \* per forwarded block: the paths Block.forward took
    bl_s,            \* s_x: the terms added to the spatial stream so far
    bl_t,            \* t_x: the terms added to the temporal stream so far
    bl_a,            \* the audio stream of beats_Bsquare, likewise
    bl_pos_bias,     \* pos_bias of beats_Bsquare: "None" or the bias carried on
    bl_io            \* per forwarded block: what it was given and what it returned

blVars == <<bl_model, bl_cfg, bl_blocks, bl_pc, bl_layer, bl_trace, bl_s, bl_t, bl_a,
            bl_pos_bias, bl_io>>

VARIABLES
    \* ---- the cross section of one beats_Bsquare Block.forward ------------
    ce_cfg,          \* CA_eq, whether num_layer is in CA, drop_path > 0, self.training
    ce_pc,           \* "s-t", "s-audio", "t-audio": the cell line reached; "done"
    ce_in,           \* the streams the cross section starts from
    ce_s,            \* s_x, one entry per row of its first axis
    ce_t,            \* t_x, likewise
    ce_text,         \* text (the audio stream), likewise
    ce_calls         \* per B_CAST.forward call: its type, arguments, masks and results

ceVars == <<ce_cfg, ce_pc, ce_in, ce_s, ce_t, ce_text, ce_calls>>

VARIABLES
    \* ---- one cross-modal cell, token by token ----------------------------
    at_cfg,          \* the cell and the sizes it was built with and is called with
    at_pc,           \* "ready" before the call, "done" after it
    at_l,            \* the left stream given to the cell
    at_r,            \* the right stream given to the cell
    at_r2l,          \* what the attention updating the left stream returned
    at_l2r,          \* what the attention updating the right stream returned
    at_l_out,        \* the left stream the cell returned
    at_r_out         \* the right stream the cell returned

atVars == <<at_cfg, at_pc, at_l, at_r, at_r2l, at_l2r, at_l_out, at_r_out>>

VARIABLES
    \* ---- audio_cast CrossAttentionS2T / CrossAttentionT2S: widths --------
    cx_args,         \* the class and the arguments of its constructor
    cx_pc,           \* "new", "built", "error" (the constructor or a call raised)
    cx_self,         \* the fields __init__ left behind
    cx_calls         \* per forward call: the widths it saw

cxVars == <<cx_args, cx_pc, cx_self, cx_calls>>

VARIABLES
    \* ---- STCrossTransformer.forward, stem to heads ----------------------
    fw_self,         \* the constructed model: class and constructor arguments
    fw_x,            \* the clip of the calls: its height and width
    fw_spec,         \* "none" (spec=None) or "given"
    fw_calls         \* per forward call: what the blocks pooled, the dropout draw, the result

fwVars == <<fw_self, fw_x, fw_spec, fw_calls>>

VARIABLES
    \* ---- one iteration of the open-vocabulary train_one_epoch, by label --
    os_nounlist,     \* nounlist: the noun names of the label space
    os_seen,         \* seen_nounlist: the names the model is prompted with
    os_pc,           \* "ready", "looked_up", "done", "error"
    os_targets,      \* per row: <<noun label, verb label>> (targets)
    os_trimmed,      \* trimmed_targets, once computed
    os_step,         \* what the iteration measured, once it has
    os_ops           \* the calls of the iteration so far

osVars == <<os_nounlist, os_seen, os_pc, os_targets, os_trimmed, os_step, os_ops>>

VARIABLES
    \* ---- the similarity logits of the prompt engines --------------------
    lg_site,         \* which normalisation: "bp_train", "ov_train", "ov_validation"
    lg_pc,           \* "ready", "done"
    lg_outputs,      \* the pooled features of one sample: [noun, verb]
    lg_features,     \* the text prototypes: [noun, verb], a list of vectors each
    lg_logits        \* [noun, verb]: one logit per prototype, once computed

lgVars == <<lg_site, lg_pc, lg_outputs, lg_features, lg_logits>>

VARIABLES
    \* ---- validation_one_epoch and final_test: meters and result lines ---
    ev_fn,           \* "ov_validation", "ov_final_test", "bp_final_test", "ft_final_test"
    ev_loader_len,   \* number of batches the data loader yields
    ev_pc,           \* "running", "returned", "error"
    ev_err,          \* the exception that ended the pass, "none" otherwise
    ev_idx,          \* number of batches taken from the loader so far
    ev_taken,        \* every sample taken from the loader so far, in order
    ev_batch,        \* the last batch taken
    ev_before,       \* metric_logger.meters before the last batch
    ev_meters,       \* metric_logger.meters: per name [count, total]
    ev_string,       \* the local `string` of final_test: "unbound" or a line
    ev_final_result, \* final_result
    ev_file          \* the output file: [written, header, lines]

evVars == <<ev_fn, ev_loader_len, ev_pc, ev_err, ev_idx, ev_taken, ev_batch, ev_before,
            ev_meters, ev_string, ev_final_result, ev_file>>

VARIABLES
    \* ---- merge and compute_video ----------------------------------------
    mg_engine,       \* the engine of the merge: "finetuning", "both_prompt", "prompt_OV"
    mg_lines,        \* the lines of the result files after their headers, in task order
    mg_pc,           \* "reading", "computing", "done"
    mg_k,            \* number of lines read so far
    mg_feats_noun,   \* dict_feats_noun (dict_feats): per name the list of scores
    mg_feats_verb,   \* dict_feats_verb
    mg_label,        \* dict_label
    mg_action_label, \* dict_action_label
    mg_pos,          \* dict_pos
    mg_ans           \* per name the list compute_video returns

mgVars == <<mg_engine, mg_lines, mg_pc, mg_k, mg_feats_noun, mg_feats_verb, mg_label,
            mg_action_label, mg_pos, mg_ans>>

vars == <<accVars, encVars, psVars, trVars, blVars, ceVars, atVars, cxVars, fwVars, osVars, lgVars, evVars, mgVars>>

notAcc == <<encVars, psVars, trVars, blVars, ceVars, atVars, cxVars, fwVars, osVars, lgVars, evVars, mgVars>>
notEnc == <<accVars, psVars, trVars, blVars, ceVars, atVars, cxVars, fwVars, osVars, lgVars, evVars, mgVars>>
notPs == <<accVars, encVars, trVars, blVars, ceVars, atVars, cxVars, fwVars, osVars, lgVars, evVars, mgVars>>
notTr == <<accVars, encVars, psVars, blVars, ceVars, atVars, cxVars, fwVars, osVars, lgVars, evVars, mgVars>>
notBl == <<accVars, encVars, psVars, trVars, ceVars, atVars, cxVars, fwVars, osVars, lgVars, evVars, mgVars>>
notCe == <<accVars, encVars, psVars, trVars, blVars, atVars, cxVars, fwVars, osVars, lgVars, evVars, mgVars>>
notAt == <<accVars, encVars, psVars, trVars, blVars, ceVars, cxVars, fwVars, osVars, lgVars, evVars, mgVars>>
notCx == <<accVars, encVars, psVars, trVars, blVars, ceVars, atVars, fwVars, osVars, lgVars, evVars, mgVars>>
notFw == <<accVars, encVars, psVars, trVars, blVars, ceVars, atVars, cxVars, osVars, lgVars, evVars, mgVars>>
notOs == <<accVars, encVars, psVars, trVars, blVars, ceVars, atVars, cxVars, fwVars, lgVars, evVars, mgVars>>
notLg == <<accVars, encVars, psVars, trVars, blVars, ceVars, atVars, cxVars, fwVars, osVars, evVars, mgVars>>
notEv == <<accVars, encVars, psVars, trVars, blVars, ceVars, atVars, cxVars, fwVars, osVars, lgVars, mgVars>>
notMg == <<accVars, encVars, psVars, trVars, blVars, ceVars, atVars, cxVars, fwVars, osVars, lgVars, evVars>>

-----------------------------------------------------------------------------
(* Bounds of the model *)

\* number of noun columns of the logits (300 in the EPIC configuration)
NumNouns == 2
\* number of verb columns of the logits (97 in the EPIC configuration)
NumVerbs == 2
\* batch sizes the data loader delivers
BatchSizes == {1, 2}
\* longest data loader, in batches
MaxBatches == 3
\* largest update_freq and largest num_training_steps_per_epoch
MaxUpdateFreq == 2
StartSteps == {0, 3}
\* largest depth of a stack of Blocks
MaxDepth == 13
\* largest late_fusion
MaxLateFusion == 3

-----------------------------------------------------------------------------
(* Helpers *)

Min(a, b) == IF a <= b THEN a ELSE b

Range(s) == {s[i] : i \in DOMAIN s}

\* Logit rows over C columns (columns are numbered from 0 as in the tensors).
\* Scores are pairwise distinct, so every top-k selection is determined.
ScoreRows(C) == {f \in [0..(C - 1) -> 1..C] : \A a, b \in 0..(C - 1) : a # b => f[a] # f[b]}

\* Exact value of a float result n/d, kept as a fraction
Frac(n, d) == <<n, d>>
FracEq(x, y) == x[1] * y[2] = y[1] * x[2]

-----------------------------------------------------------------------------
(* Label-space composition of an action id, one definition per place in    *)
(* the engines that builds one                                             *)

\* action_target = (targets[:,1] * 1000) + targets[:,0]   (train_one_epoch)
bp_train_action_target(noun, verb) == (verb * 1000) + noun

bp_validation_action_target(noun, verb) == (verb * 1000) + noun

FinalTestTargetBucket(noun, verb) == (verb * 300) + noun
bp_final_test_action_target(noun, verb) == (verb * 1000) + noun

ov_train_action_target(noun, verb) == (verb * 1000) + noun

ov_validation_action_target(noun, verb) == (verb * 1000) + noun

ov_final_test_action_target(noun, verb) == (verb * 1000) + noun

\* compute_video: pred_action = (pred_verb * 1000) + pred_noun
bp_compute_video_pred_action(pred_verb, pred_noun) == (pred_verb * 1000) + pred_noun

ov_compute_video_pred_action(pred_verb, pred_noun) == (pred_verb * 1000) + pred_noun

\* action_accuracy of engine_for_prompt_OV: pred = (pred_verb * 1000) + pred_noun
ov_accuracy_pred(pred_verb, pred_noun) == (pred_verb * 1000) + pred_noun

\* pred = (pred_verb * 1000) + pred_noun
PredActionNoMultiplier(pred_verb, pred_noun) == pred_verb + pred_noun
accuracy_pred(pred_verb, pred_noun) == (pred_verb * 1000) + pred_noun

-----------------------------------------------------------------------------
(* torch.Tensor.topk(k, 1, True, True): the k largest columns of a row,    *)
(* largest first                                                           *)

ColumnAtRank(row, r) ==
    CHOOSE c \in DOMAIN row : Cardinality({d \in DOMAIN row : row[d] > row[c]}) = r - 1

topk(row, k) == [r \in 1..k |-> ColumnAtRank(row, r)]

SeqMax(s) == CHOOSE m \in Range(s) : \A x \in Range(s) : x <= m

\* number of TRUE entries of correct[:k] over all rows and ranks
CountCorrect(correct, k, B) ==
    Cardinality({<<r, b>> \in (1..k) \X (1..B) : correct[r][b]})

(* action_accuracy(output_noun, output_verb, target, topk) *)
action_accuracy(o_noun, o_verb, target, tk) ==
    LET maxk == SeqMax(tk)
        batch_size == Len(target)
        pred_noun == [b \in 1..batch_size |-> topk(o_noun[b], maxk)]
        pred_verb == [b \in 1..batch_size |-> topk(o_verb[b], maxk)]
        \* pred = (pred_verb * 1000) + pred_noun, elementwise on two [B, maxk] tensors
        pred == [b \in 1..batch_size |->
                    [r \in 1..maxk |-> accuracy_pred(pred_verb[b][r], pred_noun[b][r])]]
        \* pred.t(); correct = pred.eq(target.reshape(1, -1).expand_as(pred))
        correct == [r \in 1..maxk |-> [b \in 1..batch_size |-> pred[b][r] = target[b]]]
    IN  [i \in 1..Len(tk) |-> Frac(CountCorrect(correct, tk[i], batch_size) * 100, batch_size)]

\* topk tuples of the calls: the default (1,) and the engines' (1, k)
TopkChoices ==
    {<<k>> : k \in 1..Min(NumNouns, NumVerbs)} \cup
    {<<1, k>> : k \in 2..Min(NumNouns, NumVerbs)}

-----------------------------------------------------------------------------
(* Idle values of the groups *)

IdleEnc ==
    /\ enc_pc = "idle"
    /\ enc_label = <<>>
    /\ enc_pred = <<>>
    /\ enc_tsite = "none"
    /\ enc_psite = "none"
    /\ enc_target_id = -1
    /\ enc_pred_id = -1

IdlePs ==
    /\ ps_fn = "none"
    /\ ps_ov = "none"
    /\ ps_len_nounlist = 0
    /\ ps_loader_len = 0
    /\ ps_pc = "idle"
    /\ ps_err = "none"
    /\ ps_idx = 0
    /\ ps_target_verb = <<>>
    /\ ps_outputs_verb = <<>>
    /\ ps_top1_noun = <<>>
    /\ ps_labels = <<>>
    /\ ps_nounFeature = <<>>
    /\ ps_verbFeature = <<>>
    /\ ps_requests = <<>>
    /\ ps_string = "unbound"
    /\ ps_pred_actions = <<>>

IdleTr ==
    /\ tr_engine = "none"
    /\ tr_scaler = FALSE
    /\ tr_has_ema = FALSE
    /\ tr_update_freq = 1
    /\ tr_steps = 0
    /\ tr_loader_len = 0
    /\ tr_pc = "idle"
    /\ tr_err = "none"
    /\ tr_i = 0
    /\ tr_loss = <<>>
    /\ tr_log = <<>>
    /\ tr_start_steps = 0
    /\ tr_it = <<>>

IdleBl ==
    /\ bl_model = "none"
    /\ bl_cfg = <<>>
    /\ bl_blocks = <<>>
    /\ bl_pc = "idle"
    /\ bl_layer = 0
    /\ bl_trace = <<>>
    /\ bl_s = <<>>
    /\ bl_t = <<>>
    /\ bl_a = <<>>
    /\ bl_pos_bias = "None"
    /\ bl_io = <<>>

IdleCe ==
    /\ ce_cfg = <<>>
    /\ ce_pc = "idle"
    /\ ce_in = <<>>
    /\ ce_s = <<>>
    /\ ce_t = <<>>
    /\ ce_text = <<>>
    /\ ce_calls = <<>>

IdleAt ==
    /\ at_cfg = <<>>
    /\ at_pc = "idle"
    /\ at_l = <<>>
    /\ at_r = <<>>
    /\ at_r2l = <<>>
    /\ at_l2r = <<>>
    /\ at_l_out = <<>>
    /\ at_r_out = <<>>

IdleCx ==
    /\ cx_args = <<>>
    /\ cx_pc = "idle"
    /\ cx_self = <<>>
    /\ cx_calls = <<>>

IdleFw ==
    /\ fw_self = <<>>
    /\ fw_x = <<>>
    /\ fw_spec = "idle"
    /\ fw_calls = <<>>

IdleOs ==
    /\ os_nounlist = <<>>
    /\ os_seen = <<>>
    /\ os_pc = "idle"
    /\ os_targets = <<>>
    /\ os_trimmed = <<>>
    /\ os_step = <<>>
    /\ os_ops = <<>>

IdleLg ==
    /\ lg_site = "none"
    /\ lg_pc = "idle"
    /\ lg_outputs = <<>>
    /\ lg_features = <<>>
    /\ lg_logits = <<>>

IdleEv ==
    /\ ev_fn = "none"
    /\ ev_loader_len = 0
    /\ ev_pc = "idle"
    /\ ev_err = "none"
    /\ ev_idx = 0
    /\ ev_taken = <<>>
    /\ ev_batch = <<>>
    /\ ev_before = <<>>
    /\ ev_meters = <<>>
    /\ ev_string = "unbound"
    /\ ev_final_result = <<>>
    /\ ev_file = <<>>

IdleMg ==
    /\ mg_engine = "none"
    /\ mg_lines = <<>>
    /\ mg_pc = "idle"
    /\ mg_k = 0
    /\ mg_feats_noun = <<>>
    /\ mg_feats_verb = <<>>
    /\ mg_label = <<>>
    /\ mg_action_label = <<>>
    /\ mg_pos = <<>>
    /\ mg_ans = <<>>

IdleAcc ==
    /\ acc_pc = "idle"
    /\ output_noun = <<>>
    /\ output_verb = <<>>
    /\ acc_labels = <<>>
    /\ acc_target = <<>>
    /\ acc_topk = <<>>
    /\ acc_res = <<>>

-----------------------------------------------------------------------------
(* SpecAcc: action_accuracy applied to one batch *)

InitAcc ==
    /\ acc_pc = "ready"
    /\ \E B \in BatchSizes :
          /\ output_noun \in [1..B -> ScoreRows(NumNouns)]
          /\ output_verb \in [1..B -> ScoreRows(NumVerbs)]
          /\ acc_labels \in [1..B -> (0..(NumNouns - 1)) \X (0..(NumVerbs - 1))]
    /\ acc_target = [b \in DOMAIN acc_labels |->
                        bp_train_action_target(acc_labels[b][1], acc_labels[b][2])]
    /\ acc_topk = <<>>
    /\ acc_res = <<>>
    /\ IdleEnc /\ IdlePs /\ IdleTr /\ IdleBl /\ IdleCe /\ IdleAt /\ IdleCx /\ IdleFw /\ IdleOs /\ IdleLg /\ IdleEv /\ IdleMg

ApplyActionAccuracy ==
    /\ acc_pc = "ready"
    /\ \E tk \in TopkChoices :
          /\ acc_topk' = tk
          /\ acc_res' = action_accuracy(output_noun, output_verb, acc_target, tk)
    /\ acc_pc' = "done"
    /\ UNCHANGED <<output_noun, output_verb, acc_labels, acc_target>>
    /\ UNCHANGED notAcc

NextAcc == ApplyActionAccuracy

SpecAcc == InitAcc /\ [][NextAcc]_vars

-----------------------------------------------------------------------------
(* Claims on action_accuracy *)

AccB == Len(acc_target)

\* row b is correct at k in the Cartesian reading: the target is verb*1000 + noun
\* for some verb among the row's top-k verbs and some noun among its top-k nouns
CartesianCorrect(b, k) ==
    \E v \in Range(topk(output_verb[b], k)) : \E n \in Range(topk(output_noun[b], k)) :
        acc_target[b] = v * 1000 + n

\* C1: for every batch and every requested k the reported value is
\* 100 * (number of rows whose target is among the k-by-k combinations of the
\* row's top-k verbs and top-k nouns) / batch_size.
C1_CartesianAccuracy ==
    acc_pc = "done" =>
        \A i \in DOMAIN acc_topk :
            FracEq(acc_res[i],
                   Frac(100 * Cardinality({b \in 1..AccB : CartesianCorrect(b, acc_topk[i])}),
                        AccB))

Top1Match(b) ==
    /\ topk(output_noun[b], 1)[1] = acc_labels[b][1]
    /\ topk(output_verb[b], 1)[1] = acc_labels[b][2]

\* C2: with topk = (1,) the result is 100 when every row's top-1 noun and top-1
\* verb equal the noun and the verb of its target, and 0 when every row has a
\* wrong top-1 noun or a wrong top-1 verb.
C2_Top1Accuracy ==
    (acc_pc = "done" /\ acc_topk = <<1>>) =>
        /\ (\A b \in 1..AccB : Top1Match(b)) => FracEq(acc_res[1], Frac(100, 1))
        /\ (\A b \in 1..AccB : ~Top1Match(b)) => FracEq(acc_res[1], Frac(0, 1))

C2_Witness ==
    /\ acc_pc = "done"
    /\ acc_topk = <<1>>
    /\ AccB = 2
    /\ \A b \in 1..AccB : ~Top1Match(b)
    /\ \E b \in 1..AccB : topk(output_noun[b], 1)[1] = acc_labels[b][1]
    /\ acc_res[1] = Frac(0, 2)

-----------------------------------------------------------------------------
(* SpecEnc: every place of the engines that composes a label-space action  *)
(* id, applied to one sample                                               *)

\* label and index values tried, with the ends of the EPIC ranges
NounIdSamples == {0, 1, 299, 999}
VerbIdSamples == {0, 1, 96}

TargetSites == {"bp_train_one_epoch", "bp_validation_one_epoch", "bp_final_test",
                "ov_train_one_epoch", "ov_validation_one_epoch", "ov_final_test"}
PredSites == {"bp_action_accuracy", "ov_action_accuracy",
              "bp_compute_video", "ov_compute_video"}

TargetAt(site, noun, verb) ==
    CASE site = "bp_train_one_epoch"      -> bp_train_action_target(noun, verb)
      [] site = "bp_validation_one_epoch" -> bp_validation_action_target(noun, verb)
      [] site = "bp_final_test"           -> bp_final_test_action_target(noun, verb)
      [] site = "ov_train_one_epoch"      -> ov_train_action_target(noun, verb)
      [] site = "ov_validation_one_epoch" -> ov_validation_action_target(noun, verb)
      [] site = "ov_final_test"           -> ov_final_test_action_target(noun, verb)

PredAt(site, pred_verb, pred_noun) ==
    CASE site = "bp_action_accuracy" -> accuracy_pred(pred_verb, pred_noun)
      [] site = "ov_action_accuracy" -> ov_accuracy_pred(pred_verb, pred_noun)
      [] site = "bp_compute_video"   -> bp_compute_video_pred_action(pred_verb, pred_noun)
      [] site = "ov_compute_video"   -> ov_compute_video_pred_action(pred_verb, pred_noun)

InitEnc ==
    /\ enc_pc = "ready"
    /\ enc_label \in NounIdSamples \X VerbIdSamples
    /\ enc_pred \in NounIdSamples \X VerbIdSamples
    /\ enc_tsite = "none"
    /\ enc_psite = "none"
    /\ enc_target_id = -1
    /\ enc_pred_id = -1
    /\ IdleAcc /\ IdlePs /\ IdleTr /\ IdleBl /\ IdleCe /\ IdleAt /\ IdleCx /\ IdleFw /\ IdleOs /\ IdleLg /\ IdleEv /\ IdleMg

ComposeTarget ==
    /\ enc_pc = "ready"
    /\ \E site \in TargetSites :
          /\ enc_tsite' = site
          /\ enc_target_id' = TargetAt(site, enc_label[1], enc_label[2])
    /\ enc_pc' = "target"
    /\ UNCHANGED <<enc_label, enc_pred, enc_psite, enc_pred_id>>
    /\ UNCHANGED notEnc

ComposePrediction ==
    /\ enc_pc = "target"
    /\ \E site \in PredSites :
          /\ enc_psite' = site
          /\ enc_pred_id' = PredAt(site, enc_pred[2], enc_pred[1])
    /\ enc_pc' = "done"
    /\ UNCHANGED <<enc_label, enc_pred, enc_tsite, enc_target_id>>
    /\ UNCHANGED notEnc

NextEnc == ComposeTarget \/ ComposePrediction

SpecEnc == InitEnc /\ [][NextEnc]_vars

\* C3: every label-space action id the engines build is verb_id*1000 + noun_id,
\* and for noun ids in 0..999 a predicted id equals the target id iff the verb
\* ids are equal and the noun ids are equal.
C3_LabelSpaceEncoding ==
    /\ enc_pc \in {"target", "done"} =>
            enc_target_id = enc_label[2] * 1000 + enc_label[1]
    /\ enc_pc = "done" =>
            /\ enc_pred_id = enc_pred[2] * 1000 + enc_pred[1]
            /\ (enc_pred_id = enc_target_id) <=>
                    (enc_pred[2] = enc_label[2] /\ enc_pred[1] = enc_label[1])

\* a prediction that differs from the target only in the verb, at the top
\* noun id, composed at compute_video against a final_test target
C3_Witness ==
    /\ enc_pc = "done"
    /\ enc_tsite = "bp_final_test"
    /\ enc_psite = "ov_compute_video"
    /\ enc_label = <<999, 0>>
    /\ enc_pred = <<999, 1>>
    /\ enc_target_id = 999
    /\ enc_pred_id = 1999

-----------------------------------------------------------------------------
(* SpecPass: one pass over a data loader                                   *)

\* actionlist[verb*300 : (verb+1)*300]: the nouns of one verb
NounBucket == 300

\* class names.  actionlist holds NounBucket names per verb (29100 = 97 * 300 in
\* text_prompt); a name is written as a number, its line in the class file.
ActionList == [i \in 1..(NounBucket * NumVerbs) |-> i - 1]
NounList == [i \in 1..NumNouns |-> 100000 + i]
VerbList == [i \in 1..NumVerbs |-> 200000 + i]

\* the text-embedding service: one embedding per name, in the order of the names
Embed(name) == 0 - (name + 1)
text_encoder(names) == [i \in 1..Len(names) |-> Embed(names[i])]

\* Python list[a:b]
PySlice(list, a, b) ==
    SubSeq(list, Min(a, Len(list)) + 1, Min(b, Len(list)))

\* torch.unique(x, sorted=True, return_inverse=True)
unique_sorted(x) ==
    LET S == Range(x)
    IN  CHOOSE u \in [1..Cardinality(S) -> S] : \A a, b \in DOMAIN u : a < b => u[a] < u[b]

UniqueInverseReversed(x) ==
    [i \in DOMAIN x |-> Cardinality(Range(x)) - (CHOOSE j \in DOMAIN unique_sorted(x) : unique_sorted(x)[j] = x[i])]
unique_inverse(x) ==
    [i \in DOMAIN x |-> (CHOOSE j \in DOMAIN unique_sorted(x) : unique_sorted(x)[j] = x[i]) - 1]

\* for verb in uniqverb: action_list += actionlist[verb*300 : (verb+1)*300]
RECURSIVE gather_action_list(_, _)
gather_action_list(uniqverb, actionlist) ==
    IF uniqverb = <<>> THEN <<>>
    ELSE PySlice(actionlist, Head(uniqverb) * 300, (Head(uniqverb) + 1) * 300)
            \o gather_action_list(Tail(uniqverb), actionlist)

\* nounFeature.view(-1, 300, 512)
view_buckets(feature) ==
    [g \in 1..(Len(feature) \div 300) |-> SubSeq(feature, (g - 1) * 300 + 1, g * 300)]

\* the batched prototype selection: the request to the text encoder and the
\* prototypes of every example
select_prototypes(verbs, actionlist) ==
    LET uniqverb == unique_sorted(verbs)
        verb_targets == unique_inverse(verbs)
        action_list == gather_action_list(uniqverb, actionlist)
        feature == view_buckets(text_encoder(action_list))
    IN  [action_list |-> action_list,
         nounFeature |-> [i \in DOMAIN verbs |-> feature[verb_targets[i] + 1]]]

\* _, pred_verb = outputs_verb.topk(1, 1, True, True): a [B, 1] tensor
pred_verb_top1(outputs_verb) == [i \in DOMAIN outputs_verb |-> topk(outputs_verb[i], 1)]

\* final_test, branch len(nounlist) != noun_logits.shape[-1], for one example
\* whose top-1 noun-logit column is p and whose pred_verb row is pred_verb_row
bp_final_test_decode(p, pred_verb_row) ==
    LET pred_nouns == p % 300
        verb_target == p \div 300
        pred_verbs == pred_verb_row[verb_target + 1]
    IN  (pred_verbs * 300) + pred_nouns

Request(idx, vocab, names, whole) ==
    [idx |-> idx, vocab |-> vocab, n |-> Len(names), full |-> names = whole]

\* the lists validation_one_epoch of the open-vocabulary engine hands to the
\* model for batch idx, and which of the returned features it keeps
OvListsSwapped(idx, ov) ==
    IF idx = 0 \/ ov = "both"
    THEN [nouns |-> NounList, verbs |-> VerbList, keep_noun |-> TRUE, keep_verb |-> TRUE]
    ELSE IF ov = "verb"
    THEN [nouns |-> NounList, verbs |-> PySlice(VerbList, 0, 1),
          keep_noun |-> TRUE, keep_verb |-> FALSE]
    ELSE IF ov = "noun"
    THEN [nouns |-> PySlice(NounList, 0, 1), verbs |-> VerbList,
          keep_noun |-> FALSE, keep_verb |-> TRUE]
    ELSE [nouns |-> PySlice(NounList, 0, 1), verbs |-> PySlice(VerbList, 0, 1),
          keep_noun |-> FALSE, keep_verb |-> FALSE]
ov_validation_model_lists(idx, ov) ==
    IF idx = 0 \/ ov = "both"
    THEN [nouns |-> NounList, verbs |-> VerbList, keep_noun |-> TRUE, keep_verb |-> TRUE]
    ELSE IF ov = "noun"
    THEN [nouns |-> NounList, verbs |-> PySlice(VerbList, 0, 1),
          keep_noun |-> TRUE, keep_verb |-> FALSE]
    ELSE IF ov = "verb"
    THEN [nouns |-> PySlice(NounList, 0, 1), verbs |-> VerbList,
          keep_noun |-> FALSE, keep_verb |-> TRUE]
    ELSE [nouns |-> PySlice(NounList, 0, 1), verbs |-> PySlice(VerbList, 0, 1),
          keep_noun |-> FALSE, keep_verb |-> FALSE]

\* the same choice in final_test of the open-vocabulary engine
ov_final_test_model_lists(idx, ov) ==
    IF idx = 0 \/ ov = "both"
    THEN [nouns |-> NounList, verbs |-> VerbList, keep_noun |-> TRUE, keep_verb |-> TRUE]
    ELSE IF ov = "noun"
    THEN [nouns |-> NounList, verbs |-> PySlice(VerbList, 0, 1),
          keep_noun |-> TRUE, keep_verb |-> FALSE]
    ELSE IF ov = "verb"
    THEN [nouns |-> PySlice(NounList, 0, 1), verbs |-> VerbList,
          keep_noun |-> FALSE, keep_verb |-> TRUE]
    ELSE [nouns |-> PySlice(NounList, 0, 1), verbs |-> PySlice(VerbList, 0, 1),
          keep_noun |-> FALSE, keep_verb |-> FALSE]

BpFns == {"bp_composition_train_class_batch", "bp_validation_one_epoch", "bp_final_test"}
OvFns == {"ov_validation_one_epoch", "ov_final_test"}
OvModes == {"both", "noun", "verb", "none"}
\* len(nounlist) of the class_list: the EPIC noun count, and another one
NounlistLens == {300, 299}
\* top-1 columns of a 300-wide noun-logit row
NounTop1Samples == {0, 299}

InitPass ==
    /\ ps_fn \in BpFns \cup OvFns
    /\ ps_ov \in IF ps_fn \in OvFns THEN OvModes ELSE {"none"}
    /\ ps_len_nounlist \in IF ps_fn = "bp_final_test" THEN NounlistLens ELSE {300}
    /\ ps_loader_len \in 1..MaxBatches
    /\ ps_pc = "running"
    /\ ps_err = "none"
    /\ ps_idx = 0
    /\ ps_target_verb = <<>>
    /\ ps_outputs_verb = <<>>
    /\ ps_top1_noun = <<>>
    /\ ps_labels = <<>>
    /\ ps_nounFeature = <<>>
    /\ ps_verbFeature = <<>>
    /\ ps_requests = <<>>
    /\ ps_string = "unbound"
    /\ ps_pred_actions = <<>>
    /\ IdleAcc /\ IdleEnc /\ IdleTr /\ IdleBl /\ IdleCe /\ IdleAt /\ IdleCx /\ IdleFw /\ IdleOs /\ IdleLg /\ IdleEv /\ IdleMg

\* one call of composition_train_class_batch (both-prompt engine), made by
\* train_one_epoch for one batch
BpTrainClassBatch ==
    /\ ps_fn = "bp_composition_train_class_batch"
    /\ ps_pc = "running"
    /\ ps_idx < ps_loader_len
    /\ \E B \in BatchSizes : \E target_verb \in [1..B -> 0..(NumVerbs - 1)] :
          LET sel == select_prototypes(target_verb, ActionList)
          IN  /\ ps_target_verb' = target_verb
              /\ ps_requests' = Append(ps_requests,
                                       Request(ps_idx, "action", sel.action_list, ActionList))
              /\ ps_nounFeature' = sel.nounFeature
    /\ ps_idx' = ps_idx + 1
    /\ UNCHANGED <<ps_fn, ps_ov, ps_len_nounlist, ps_loader_len, ps_pc, ps_err,
                   ps_outputs_verb, ps_top1_noun, ps_labels, ps_verbFeature, ps_string,
                   ps_pred_actions>>
    /\ UNCHANGED notPs

\* one iteration of the loop of validation_one_epoch (both-prompt engine)
BpValidationBatch ==
    /\ ps_fn = "bp_validation_one_epoch"
    /\ ps_pc = "running"
    /\ ps_idx < ps_loader_len
    /\ \E B \in BatchSizes : \E outputs_verb \in [1..B -> ScoreRows(NumVerbs)] :
          LET pred_verb == pred_verb_top1(outputs_verb)
              sel == select_prototypes([i \in 1..B |-> pred_verb[i][1]], ActionList)
          IN  /\ ps_outputs_verb' = outputs_verb
              /\ ps_requests' = Append(ps_requests,
                                       Request(ps_idx, "action", sel.action_list, ActionList))
              /\ ps_nounFeature' = sel.nounFeature
    /\ ps_idx' = ps_idx + 1
    /\ UNCHANGED <<ps_fn, ps_ov, ps_len_nounlist, ps_loader_len, ps_pc, ps_err,
                   ps_target_verb, ps_top1_noun, ps_labels, ps_verbFeature, ps_string,
                   ps_pred_actions>>
    /\ UNCHANGED notPs

\* one iteration of the loop of final_test (both-prompt engine).  The line
\* final_result.append(string) reads the local `string`, which is first
\* assigned further down in the same iteration.
BpFinalTestBatch ==
    /\ ps_fn = "bp_final_test"
    /\ ps_pc = "running"
    /\ ps_idx < ps_loader_len
    /\ \E B \in BatchSizes :
       \E outputs_verb \in [1..B -> ScoreRows(NumVerbs)] :
       \E top1 \in [1..B -> NounTop1Samples] :
       \E labels \in [1..B -> {0, 300 * (NumVerbs - 1) + 299}] :
          LET pred_verb == pred_verb_top1(outputs_verb)
              sel == select_prototypes([i \in 1..B |-> pred_verb[i][1]], ActionList)
          IN  /\ ps_outputs_verb' = outputs_verb
              /\ ps_top1_noun' = top1
              /\ ps_labels' = labels
              /\ ps_requests' = Append(ps_requests,
                                       Request(ps_idx, "action", sel.action_list, ActionList))
              /\ ps_nounFeature' = sel.nounFeature
              /\ IF ps_string = "unbound"
                 THEN /\ ps_pc' = "error"
                      /\ ps_err' = "UnboundLocalError"
                      /\ UNCHANGED <<ps_string, ps_pred_actions>>
                 ELSE /\ ps_pred_actions' =
                            IF ps_len_nounlist # NounBucket
                            THEN [i \in 1..B |-> bp_final_test_decode(top1[i], pred_verb[i])]
                            ELSE <<>>
                      /\ ps_string' = "bound"
                      /\ UNCHANGED <<ps_pc, ps_err>>
    /\ ps_idx' = ps_idx + 1
    /\ UNCHANGED <<ps_fn, ps_ov, ps_len_nounlist, ps_loader_len, ps_target_verb,
                   ps_verbFeature>>
    /\ UNCHANGED notPs

\* one iteration of the loop of validation_one_epoch or final_test of the
\* open-vocabulary engine: the model is handed the lists and returns their
\* embeddings; the engine keeps the ones it unpacks
OvEvalBatch ==
    /\ ps_fn \in OvFns
    /\ ps_pc = "running"
    /\ ps_idx < ps_loader_len
    /\ LET lists == IF ps_fn = "ov_validation_one_epoch"
                    THEN ov_validation_model_lists(ps_idx, ps_ov)
                    ELSE ov_final_test_model_lists(ps_idx, ps_ov)
       IN  /\ ps_requests' = ps_requests \o
                                <<Request(ps_idx, "noun", lists.nouns, NounList),
                                  Request(ps_idx, "verb", lists.verbs, VerbList)>>
           /\ ps_nounFeature' = IF lists.keep_noun THEN text_encoder(lists.nouns)
                                ELSE ps_nounFeature
           /\ ps_verbFeature' = IF lists.keep_verb THEN text_encoder(lists.verbs)
                                ELSE ps_verbFeature
    /\ ps_idx' = ps_idx + 1
    /\ UNCHANGED <<ps_fn, ps_ov, ps_len_nounlist, ps_loader_len, ps_pc, ps_err,
                   ps_target_verb, ps_outputs_verb, ps_top1_noun, ps_labels, ps_string,
                   ps_pred_actions>>
    /\ UNCHANGED notPs

\* the loader is exhausted: the function returns
PassReturn ==
    /\ ps_pc = "running"
    /\ ps_idx = ps_loader_len
    /\ ps_pc' = "returned"
    /\ UNCHANGED <<ps_fn, ps_ov, ps_len_nounlist, ps_loader_len, ps_err, ps_idx,
                   ps_target_verb, ps_outputs_verb, ps_top1_noun, ps_labels,
                   ps_nounFeature, ps_verbFeature, ps_requests, ps_string, ps_pred_actions>>
    /\ UNCHANGED notPs

NextPass ==
    \/ BpTrainClassBatch
    \/ BpValidationBatch
    \/ BpFinalTestBatch
    \/ OvEvalBatch
    \/ PassReturn

SpecPass == InitPass /\ [][NextPass]_vars

\* the batch the last iteration worked on
PsBatch == IF ps_fn = "bp_composition_train_class_batch"
           THEN DOMAIN ps_target_verb ELSE DOMAIN ps_outputs_verb

\* the verb that selects the prototypes of example i: the verb label in
\* training, the verb with the highest logit in evaluation
SelectingVerb(i) ==
    IF ps_fn = "bp_composition_train_class_batch"
    THEN ps_target_verb[i]
    ELSE CHOOSE c \in DOMAIN ps_outputs_verb[i] :
            \A d \in DOMAIN ps_outputs_verb[i] : ps_outputs_verb[i][d] <= ps_outputs_verb[i][c]

\* C4: in final_test of the both-prompt engine, when the noun vocabulary size
\* differs from the noun-logit width, every sample of a processed batch gets the
\* predicted action (looked-up verb) * 300 + (p % 300) from its top-1 index p,
\* ready to be compared with the action label, and the pass raises no error.
C4_FinalTestDecodes ==
    (ps_fn = "bp_final_test" /\ ps_len_nounlist # NounBucket /\ ps_idx > 0) =>
        /\ ps_err = "none"
        /\ DOMAIN ps_pred_actions = PsBatch
        /\ \A i \in PsBatch :
              ps_pred_actions[i] = (SelectingVerb(i) * 300) + (ps_top1_noun[i] % 300)

\* C5: after every batch of the both-prompt engine, example i holds exactly the
\* embeddings of actionlist[300*v_i .. 300*v_i+299], in that order, whatever
\* the other verbs of the batch; each batch made exactly one request to the text
\* encoder, and the last one asked for 300 * (distinct verbs of the batch) names.
C5_BatchedPrototypeSelection ==
    (ps_fn \in BpFns /\ ps_idx > 0) =>
        /\ DOMAIN ps_nounFeature = PsBatch
        /\ \A i \in PsBatch :
              ps_nounFeature[i] =
                  [j \in 1..300 |-> Embed(ActionList[(300 * SelectingVerb(i)) + j])]
        /\ Len(ps_requests) = ps_idx
        /\ \A j \in 1..ps_idx :
              ps_requests[j].idx = j - 1 /\ ps_requests[j].vocab = "action"
        /\ ps_requests[ps_idx].n = 300 * Cardinality({SelectingVerb(i) : i \in PsBatch})

\* a validation batch of two examples whose predicted verbs are 1 and 0, in
\* that order: one request of 600 names, and each example got its own bucket
C5_Witness ==
    /\ ps_fn = "bp_validation_one_epoch"
    /\ ps_idx = 2
    /\ Len(ps_outputs_verb) = 2
    /\ SelectingVerb(1) = 1
    /\ SelectingVerb(2) = 0
    /\ ps_requests[2].n = 600
    /\ ps_nounFeature[1][1] = Embed(ActionList[301])
    /\ ps_nounFeature[2][300] = Embed(ActionList[300])

FullVocabularyRequests(idx) ==
    {r \in Range(ps_requests) : r.idx = idx /\ r.full /\ r.vocab \in {"noun", "verb"}}

-----------------------------------------------------------------------------
(* SpecTrain: train_one_epoch of the three engines                         *)

Engines == {"finetuning", "both_prompt", "prompt_OV"}

\* loss.item(): a finite number, NaN, or an infinity
LossValues == {"finite", "nan", "inf", "-inf"}

\* math.isfinite(loss_value), at its three places
ft_isfinite(loss_value) == loss_value \notin {"nan", "inf", "-inf"}
IsFiniteNanOnly(loss_value) == loss_value # "nan"
bp_isfinite(loss_value) == loss_value \notin {"nan", "inf", "-inf"}
ov_isfinite(loss_value) == loss_value \notin {"nan", "inf", "-inf"}

isfinite_of(engine, loss_value) ==
    IF engine = "finetuning" THEN ft_isfinite(loss_value)
    ELSE IF engine = "both_prompt" THEN bp_isfinite(loss_value)
    ELSE ov_isfinite(loss_value)

Call(step, op) == [step |-> step, op |-> op]

UpdateCallsAtGroupStart(data_iter_step, scaler, has_ema, update_freq) ==
    LET boundary == data_iter_step % update_freq = 0
        ema == IF boundary /\ has_ema THEN <<Call(data_iter_step, "ema")>> ELSE <<>>
    IN  IF ~scaler
        THEN <<Call(data_iter_step, "backward"), Call(data_iter_step, "step")>> \o ema
        ELSE <<Call(data_iter_step, "backward")>>
                \o (IF boundary
                    THEN <<Call(data_iter_step, "step"), Call(data_iter_step, "zero_grad")>>
                    ELSE <<>>)
                \o ema

\* the update of one iteration with a finite loss.  Without a loss scaler the
\* engine calls model.backward and model.step itself; with one, loss_scaler
\* runs the backward pass and, when update_grad, the optimizer step.
update_calls(data_iter_step, scaler, has_ema, update_freq) ==
    LET boundary == (data_iter_step + 1) % update_freq = 0
        ema == IF boundary /\ has_ema THEN <<Call(data_iter_step, "ema")>> ELSE <<>>
    IN  IF ~scaler
        THEN <<Call(data_iter_step, "backward"), Call(data_iter_step, "step")>> \o ema
        ELSE <<Call(data_iter_step, "backward")>>
                \o (IF boundary
                    THEN <<Call(data_iter_step, "step"), Call(data_iter_step, "zero_grad")>>
                    ELSE <<>>)
                \o ema

\* it = start_steps + step, the index into lr_schedule_values and wd_schedule_values
global_iteration(start_steps, data_iter_step, update_freq) ==
    start_steps + data_iter_step \div update_freq

\* the parameters without a default of the function that runs one batch:
\* train_class_batch(model, samples, target, criterion, ...) and
\* composition_train_class_batch(model, samples, target_noun, target_verb,
\* criterion, nounlist, verblist, actionlist, device)
required_params(engine) == IF engine = "finetuning" THEN 4 ELSE 9

AmpCallUpdated(engine) == required_params(engine)

\* the arguments the branch under torch.cuda.amp.autocast() passes to it
amp_call_args(engine) == IF engine = "finetuning" THEN 4 ELSE 5

InitTrain ==
    /\ tr_engine \in Engines
    /\ tr_scaler \in BOOLEAN
    /\ tr_has_ema \in BOOLEAN
    /\ tr_update_freq \in 1..MaxUpdateFreq
    /\ tr_steps \in 1..MaxUpdateFreq
    /\ tr_loader_len \in 1..MaxBatches
    /\ tr_pc = "start"
    /\ tr_err = "none"
    /\ tr_i = 0
    /\ tr_loss = <<>>
    /\ tr_log = <<>>
    /\ tr_start_steps \in StartSteps
    /\ tr_it = <<>>
    /\ IdleAcc /\ IdleEnc /\ IdlePs /\ IdleBl /\ IdleCe /\ IdleAt /\ IdleCx /\ IdleFw /\ IdleOs /\ IdleLg /\ IdleEv /\ IdleMg

\* train_one_epoch up to its loop: model.zero_grad() or optimizer.zero_grad()
TrainBegin ==
    /\ tr_pc = "start"
    /\ tr_pc' = "running"
    /\ tr_log' = Append(tr_log, Call(0 - 1, "zero_grad"))
    /\ UNCHANGED <<tr_engine, tr_scaler, tr_has_ema, tr_update_freq, tr_steps,
                   tr_loader_len, tr_err, tr_i, tr_loss, tr_start_steps, tr_it>>
    /\ UNCHANGED notTr

\* one iteration of the loop of train_one_epoch
TrainIteration ==
    /\ tr_pc = "running"
    /\ tr_i < tr_loader_len
    /\ \E loss_value \in LossValues :
       \E seen \in (IF tr_engine = "prompt_OV" THEN BOOLEAN ELSE {TRUE}) :
       \E print_force \in BOOLEAN :
          LET step == tr_i \div tr_update_freq
          IN  IF step >= tr_steps
              THEN \* continue
                   /\ tr_i' = tr_i + 1
                   /\ UNCHANGED <<tr_pc, tr_err, tr_loss, tr_log, tr_it>>
              ELSE /\ tr_it' = Append(tr_it, [step |-> tr_i,
                                              it |-> global_iteration(tr_start_steps, tr_i,
                                                                      tr_update_freq)])
                   /\ IF tr_engine = "prompt_OV" /\ ~seen
                      THEN \* seen_nounlist.index(name) of a noun that is not in the list
                           /\ tr_pc' = "error"
                           /\ tr_err' = "ValueError"
                           /\ UNCHANGED <<tr_i, tr_loss, tr_log>>
                      ELSE IF tr_scaler /\ amp_call_args(tr_engine) < required_params(tr_engine)
                      THEN \* the batch function called without its last four arguments
                           /\ tr_pc' = "error"
                           /\ tr_err' = "TypeError"
                           /\ UNCHANGED <<tr_i, tr_loss, tr_log>>
                      ELSE /\ tr_loss' = Append(tr_loss, [step |-> tr_i, loss |-> loss_value])
                           /\ IF ~isfinite_of(tr_engine, loss_value)
                              THEN \* print(..., force=True); sys.exit(1).  The print raises
                                   \* TypeError unless the builtin was replaced by one that
                                   \* takes force.
                                   /\ tr_pc' = "halted"
                                   /\ tr_err' = IF print_force THEN "SystemExit" ELSE "TypeError"
                                   /\ tr_log' = Append(tr_log, Call(tr_i, "forward"))
                                   /\ UNCHANGED tr_i
                              ELSE /\ tr_log' = Append(tr_log, Call(tr_i, "forward"))
                                                   \o update_calls(tr_i, tr_scaler, tr_has_ema,
                                                                   tr_update_freq)
                                   /\ tr_i' = tr_i + 1
                                   /\ UNCHANGED <<tr_pc, tr_err>>
    /\ UNCHANGED <<tr_engine, tr_scaler, tr_has_ema, tr_update_freq, tr_steps, tr_loader_len,
                   tr_start_steps>>
    /\ UNCHANGED notTr

\* the loader is exhausted: train_one_epoch returns
TrainReturn ==
    /\ tr_pc = "running"
    /\ tr_i = tr_loader_len
    /\ tr_pc' = "returned"
    /\ UNCHANGED <<tr_engine, tr_scaler, tr_has_ema, tr_update_freq, tr_steps,
                   tr_loader_len, tr_err, tr_i, tr_loss, tr_log, tr_start_steps, tr_it>>
    /\ UNCHANGED notTr

NextTrain == TrainBegin \/ TrainIteration \/ TrainReturn

SpecTrain == InitTrain /\ [][NextTrain]_vars

UpdateOps == {"backward", "step", "zero_grad", "ema"}

\* C7: in every engine, once an iteration has computed a NaN or infinite loss
\* the process has halted at that step: no backward pass, optimizer step,
\* gradient zeroing or EMA update was made for that step, and no call belongs
\* to a later batch.
C7_NonFiniteLossHalts ==
    \A k \in DOMAIN tr_loss :
        tr_loss[k].loss \in {"nan", "inf", "-inf"} =>
            /\ tr_pc = "halted"
            /\ tr_i = tr_loss[k].step
            /\ \A c \in Range(tr_log) :
                  /\ c.step <= tr_loss[k].step
                  /\ c.step = tr_loss[k].step => c.op \notin UpdateOps

\* the second batch of a both-prompt epoch has an infinite loss, after a first
\* batch that was stepped
C7_Witness ==
    /\ tr_engine = "both_prompt"
    /\ tr_pc = "halted"
    /\ Len(tr_loss) = 2
    /\ tr_loss[1].loss = "finite"
    /\ tr_loss[2] = [step |-> 1, loss |-> "inf"]
    /\ Call(0, "step") \in Range(tr_log)
    /\ Call(1, "forward") \in Range(tr_log)

CompositionWithScaler == tr_engine \in {"both_prompt", "prompt_OV"} /\ tr_scaler

\* the calls of the log that belong to a batch and run or update the model
ModelCalls == {c \in Range(tr_log) : c.op \in {"forward", "backward", "step", "ema"}}

\* C23 as stated: in a composition engine called with a loss scaler the first
\* processed step raises at the call of composition_train_class_batch
\* (TypeError), and no forward pass, backward pass or update is made.
C23_RaisesAtCall ==
    (CompositionWithScaler /\ tr_it # <<>>) =>
        /\ tr_pc = "error"
        /\ tr_err = "TypeError"
        /\ ModelCalls = {}

\* C23: in a composition engine called with a loss scaler the first processed
\* step ends train_one_epoch with an error no later than the call of
\* composition_train_class_batch: TypeError at the call, or, in the
\* open-vocabulary engine, ValueError at the lookup of a noun that is not in
\* seen_nounlist, which comes before the call.  No loss is computed, no
\* backward pass and no update is made, and no later batch is read.
C23_NoUpdateWithScaler ==
    CompositionWithScaler =>
        /\ tr_i = 0
        /\ tr_pc \in {"start", "running", "error"}
        /\ tr_loss = <<>>
        /\ ModelCalls = {}
        /\ tr_it # <<>> =>
              /\ Len(tr_it) = 1
              /\ tr_pc = "error"
              /\ \/ tr_err = "TypeError"
                 \/ tr_engine = "prompt_OV" /\ tr_err = "ValueError"

C23_Witness ==
    /\ tr_engine = "both_prompt"
    /\ tr_scaler
    /\ tr_pc = "error"
    /\ tr_err = "TypeError"
    /\ Len(tr_it) = 1
    /\ tr_log = <<Call(0 - 1, "zero_grad")>>

\* how often train_one_epoch made the call op for micro-step i
Times(i, op) == Cardinality({k \in DOMAIN tr_log : tr_log[k] = Call(i, op)})

\* the micro-steps that ran through their update
Updated == {c.step : c \in {d \in Range(tr_log) : d.op = "backward"}}

Boundary(i) == (i + 1) % tr_update_freq = 0

\* the micro-steps of accumulation group g
Group(g) == {i \in 0..(tr_loader_len - 1) : i \div tr_update_freq = g}

\* C24 as stated: once the epoch has returned, every accumulation group that
\* had a micro-step processed has had exactly one EMA update.
C24_OncePerGroup ==
    (tr_pc = "returned" /\ tr_has_ema) =>
        \A g \in 0..tr_loader_len :
            (Group(g) \cap Updated # {}) =>
                Cardinality({c \in Range(tr_log) : c.op = "ema" /\ c.step \in Group(g)}) = 1

\* C24: a micro-step whose group index i // update_freq is not below
\* num_training_steps_per_epoch makes no call and computes no loss and no
\* global iteration; a micro-step that ran through its update has one EMA
\* update (when there is a model_ema) and, with a loss scaler, one optimizer
\* step and one zero_grad exactly when (i+1) % update_freq = 0, and none
\* otherwise, so a group has one of each when its last micro-step was
\* processed and none when the loader ended inside the group; the global
\* iteration of micro-step i is start_steps + i // update_freq.
C24_Accumulation ==
    /\ \A c \in Range(tr_log) : c.step >= 0 => c.step \div tr_update_freq < tr_steps
    /\ \A k \in DOMAIN tr_loss : tr_loss[k].step \div tr_update_freq < tr_steps
    /\ \A k \in DOMAIN tr_it :
          /\ tr_it[k].step \div tr_update_freq < tr_steps
          /\ tr_it[k].it = tr_start_steps + (tr_it[k].step \div tr_update_freq)
    /\ \A i \in 0..(tr_loader_len - 1) :
          IF i \in Updated
          THEN /\ Times(i, "forward") = 1
               /\ Times(i, "backward") = 1
               /\ Times(i, "ema") = (IF Boundary(i) /\ tr_has_ema THEN 1 ELSE 0)
               /\ tr_scaler =>
                     /\ Times(i, "step") = (IF Boundary(i) THEN 1 ELSE 0)
                     /\ Times(i, "zero_grad") = (IF Boundary(i) THEN 1 ELSE 0)
          ELSE /\ Times(i, "ema") = 0
               /\ Times(i, "step") = 0
               /\ Times(i, "zero_grad") = 0
    /\ \A g \in 0..tr_loader_len :
          (Group(g) # {} /\ tr_has_ema) =>
              Cardinality({c \in Range(tr_log) : c.op = "ema" /\ c.step \in Group(g)})
                  = (IF \E i \in Group(g) \cap Updated : Boundary(i) THEN 1 ELSE 0)

\* a loader of three batches with update_freq 2 and one training step: the
\* first two micro-steps accumulate and update once, the third is skipped
C24_Witness ==
    /\ tr_pc = "returned"
    /\ tr_engine = "finetuning"
    /\ tr_scaler
    /\ tr_has_ema
    /\ tr_update_freq = 2
    /\ tr_steps = 1
    /\ tr_i = 3
    /\ tr_start_steps = 3
    /\ tr_it = <<[step |-> 0, it |-> 3], [step |-> 1, it |-> 3]>>
    /\ tr_log = <<Call(0 - 1, "zero_grad"),
                  Call(0, "forward"), Call(0, "backward"),
                  Call(1, "forward"), Call(1, "backward"), Call(1, "step"),
                  Call(1, "zero_grad"), Call(1, "ema")>>

-----------------------------------------------------------------------------
(* SpecBlocks: the Blocks of STCrossTransformer and one forward through    *)
(* them, for audio_cast and beats_Bsquare                                  *)

\* one term added to a stream by a Block: the self-attention term, a
\* cross-modal term of a modality pair, or the feed-forward term
Term(layer, kind, via) == [layer |-> layer, kind |-> kind, via |-> via]

AdapterModules == {"S_Adapter", "T_Adapter", "S_MLP_Adapter", "T_MLP_Adapter"}
BeatsAdapterModules == AdapterModules \cup {"Text_Adapter", "Text_MLP_Adapter"}

\* audio_cast.Block.__init__: self.use_Adapter
AdapterFlagStrict(num_layer, use_Adapter, late_fusion) ==
    IF num_layer > late_fusion THEN TRUE ELSE use_Adapter
audio_use_Adapter(num_layer, use_Adapter, late_fusion) ==
    IF num_layer >= late_fusion THEN TRUE ELSE use_Adapter

\* audio_cast.Block.__init__: the attributes the claims are about
audio_Block_init(num_layer, CA, use_Adapter, late_fusion) ==
    LET self_use_Adapter == audio_use_Adapter(num_layer, use_Adapter, late_fusion)
    IN  [num_layer |-> num_layer, CA |-> CA, late_fusion |-> late_fusion,
         use_Adapter |-> self_use_Adapter,
         modules |-> (IF self_use_Adapter THEN AdapterModules ELSE {})
                     \cup (IF num_layer >= CA /\ num_layer >= late_fusion
                           THEN {"t2s_cross", "s2t_cross"} ELSE {})]

\* audio_cast.Block.forward: the condition of the cross-attention part
AudioCrossGateNoLateFusion(blk) == blk.num_layer >= blk.CA
audio_forward_cross_gate(blk) ==
    blk.num_layer >= blk.CA /\ blk.num_layer >= blk.late_fusion

\* audio_cast.Block.forward: the paths taken, the attributes read, and the
\* terms added to s_x and t_x
audio_Block_forward(blk) ==
    LET adapters == blk.use_Adapter
        cross == audio_forward_cross_gate(blk)
        used == (IF adapters THEN AdapterModules ELSE {})
                \cup (IF cross THEN {"t2s_cross", "s2t_cross"} ELSE {})
        via == IF adapters THEN "adapter" ELSE "plain"
        terms == <<Term(blk.num_layer, "mhsa", via)>>
                 \o (IF cross THEN <<Term(blk.num_layer, "cross", "s-t")>> ELSE <<>>)
                 \o <<Term(blk.num_layer, "ffn", via)>>
    IN  [layer |-> blk.num_layer, adapters |-> adapters,
         cells |-> IF cross THEN {"s-t"} ELSE {},
         missing |-> used \ blk.modules,
         s_terms |-> terms, t_terms |-> terms, a_terms |-> <<>>]

\* beats_Bsquare.STCrossTransformer.__init__: CA = [i for i in range(CA, 12)]
EnabledAfter(CA) == {i \in 0..11 : i > CA}
beats_enabled_layers(CA) == {i \in 0..11 : i >= CA}

\* beats_Bsquare.Block.__init__: the attributes the claims are about
beats_Block_init(num_layer, CA, CA_eq, use_Adapter) ==
    [num_layer |-> num_layer, CA |-> CA, CA_eq |-> CA_eq, use_Adapter |-> use_Adapter,
     modules |-> (IF use_Adapter THEN BeatsAdapterModules ELSE {})
                 \cup (IF ~CA_eq \/ num_layer \in CA THEN {"s_t_b_cast"} ELSE {})
                 \cup (IF num_layer \in CA THEN {"s_text_b_cast", "t_text_b_cast"} ELSE {})]

\* beats_Bsquare.Block.forward: the paths taken, the attributes read, and the
\* terms added to s_x, t_x and the audio stream
beats_Block_forward(blk) ==
    LET adapters == blk.use_Adapter
        s_t == ~blk.CA_eq \/ blk.num_layer \in blk.CA
        audio == blk.num_layer \in blk.CA
        used == (IF adapters THEN BeatsAdapterModules ELSE {})
                \cup (IF s_t THEN {"s_t_b_cast"} ELSE {})
                \cup (IF audio THEN {"s_text_b_cast", "t_text_b_cast"} ELSE {})
        via == IF adapters THEN "adapter" ELSE "plain"
        x_s_t == IF s_t THEN <<Term(blk.num_layer, "cross", "s-t")>> ELSE <<>>
        x_s_a == IF audio THEN <<Term(blk.num_layer, "cross", "s-audio")>> ELSE <<>>
        x_t_a == IF audio THEN <<Term(blk.num_layer, "cross", "t-audio")>> ELSE <<>>
    IN  [layer |-> blk.num_layer, adapters |-> adapters,
         cells |-> (IF s_t THEN {"s-t"} ELSE {})
                   \cup (IF audio THEN {"s-audio", "t-audio"} ELSE {}),
         missing |-> used \ blk.modules,
         s_terms |-> <<Term(blk.num_layer, "mhsa", via)>> \o x_s_t \o x_s_a
                        \o <<Term(blk.num_layer, "ffn", via)>>,
         t_terms |-> <<Term(blk.num_layer, "mhsa", via)>> \o x_s_t \o x_t_a
                        \o <<Term(blk.num_layer, "ffn", via)>>,
         a_terms |-> <<Term(blk.num_layer, "mhsa", via)>> \o x_s_a \o x_t_a
                        \o <<Term(blk.num_layer, "ffn", via)>>]

\* the model after STCrossTransformer.__init__
InitBlocks ==
    /\ bl_model \in {"audio_cast", "beats_Bsquare"}
    /\ \E depth \in 1..MaxDepth : \E CA \in 0..MaxDepth : \E use_Adapter \in BOOLEAN :
       \E late_fusion \in (IF bl_model = "audio_cast" THEN 0..MaxLateFusion ELSE {0}) :
       \E CA_eq \in (IF bl_model = "beats_Bsquare" THEN BOOLEAN ELSE {FALSE}) :
          /\ bl_cfg = [depth |-> depth, CA |-> CA, use_Adapter |-> use_Adapter,
                       late_fusion |-> late_fusion, CA_eq |-> CA_eq]
          /\ bl_blocks =
                IF bl_model = "audio_cast"
                THEN [i \in 1..depth |-> audio_Block_init(i - 1, CA, use_Adapter, late_fusion)]
                ELSE [i \in 1..depth |->
                        beats_Block_init(i - 1, beats_enabled_layers(CA), CA_eq, use_Adapter)]
    /\ bl_pc = "running"
    /\ bl_layer = 0
    /\ bl_trace = <<>>
    /\ bl_s = <<>>
    /\ bl_t = <<>>
    /\ bl_a = <<>>
    /\ bl_pos_bias = "None"
    /\ bl_io = <<>>
    /\ IdleAcc /\ IdleEnc /\ IdlePs /\ IdleTr /\ IdleCe /\ IdleAt /\ IdleCx /\ IdleFw /\ IdleOs /\ IdleLg /\ IdleEv /\ IdleMg

\* the relative position bias the self-attention of the audio stream returns:
\* computed when it is given None, handed on otherwise
self_attn_pos_bias(layer, pos_bias) ==
    IF pos_bias = "None" THEN <<"pos_bias", layer>> ELSE pos_bias

\* s_x, t_x, spec_x, pos_bias = blk(s_x, t_x, spec_x, pos_bias): what the loop
\* hands to the next block
CarryStreamsSwapped(returned) ==
    [s |-> returned.t, t |-> returned.s, a |-> returned.a, pos_bias |-> returned.pos_bias]
loop_carry(returned) ==
    [s |-> returned.s, t |-> returned.t, a |-> returned.a, pos_bias |-> returned.pos_bias]

\* the effect of one iteration of `for blk in self.blocks`; reading an
\* attribute __init__ did not set raises AttributeError
ForwardOne(out) ==
    /\ bl_trace' = Append(bl_trace, [layer |-> out.layer, adapters |-> out.adapters,
                                     cells |-> out.cells, missing |-> out.missing])
    /\ IF out.missing # {}
       THEN /\ bl_pc' = "error"
            /\ UNCHANGED <<bl_layer, bl_s, bl_t, bl_a, bl_pos_bias, bl_io>>
       ELSE LET given == [s |-> bl_s, t |-> bl_t, a |-> bl_a, pos_bias |-> bl_pos_bias]
                returned == [s |-> bl_s \o out.s_terms,
                             t |-> bl_t \o out.t_terms,
                             a |-> bl_a \o out.a_terms,
                             pos_bias |-> IF bl_model = "beats_Bsquare"
                                          THEN self_attn_pos_bias(out.layer, bl_pos_bias)
                                          ELSE bl_pos_bias]
                carried == loop_carry(returned)
            IN  /\ bl_io' = Append(bl_io, [layer |-> out.layer, given |-> given,
                                           returned |-> returned])
                /\ bl_s' = carried.s
                /\ bl_t' = carried.t
                /\ bl_a' = carried.a
                /\ bl_pos_bias' = carried.pos_bias
                /\ bl_layer' = bl_layer + 1
                /\ UNCHANGED bl_pc
    /\ UNCHANGED <<bl_model, bl_cfg, bl_blocks>>
    /\ UNCHANGED notBl

\* audio_cast.STCrossTransformer.forward_features: one block of the loop
AudioBlockForward ==
    /\ bl_model = "audio_cast"
    /\ bl_pc = "running"
    /\ bl_layer < Len(bl_blocks)
    /\ ForwardOne(audio_Block_forward(bl_blocks[bl_layer + 1]))

\* beats_Bsquare.STCrossTransformer.forward_features: one block of the loop
BeatsBlockForward ==
    /\ bl_model = "beats_Bsquare"
    /\ bl_pc = "running"
    /\ bl_layer < Len(bl_blocks)
    /\ ForwardOne(beats_Block_forward(bl_blocks[bl_layer + 1]))

\* the loop over self.blocks is done
BlocksReturn ==
    /\ bl_pc = "running"
    /\ bl_layer = Len(bl_blocks)
    /\ bl_pc' = "returned"
    /\ UNCHANGED <<bl_model, bl_cfg, bl_blocks, bl_layer, bl_trace, bl_s, bl_t, bl_a,
                   bl_pos_bias, bl_io>>
    /\ UNCHANGED notBl

NextBlocks == AudioBlockForward \/ BeatsBlockForward \/ BlocksReturn

SpecBlocks == InitBlocks /\ [][NextBlocks]_vars

-----------------------------------------------------------------------------
(* Claims on the gating of a Block                                         *)

ModelPairs == IF bl_model = "audio_cast" THEN {"s-t"} ELSE {"s-t", "s-audio", "t-audio"}

\* the attributes that make up the cross-modal cell of a modality pair
PairModules(pair) ==
    IF bl_model = "audio_cast" THEN {"t2s_cross", "s2t_cross"}
    ELSE IF pair = "s-t" THEN {"s_t_b_cast"}
    ELSE IF pair = "s-audio" THEN {"s_text_b_cast"}
    ELSE {"t_text_b_cast"}

CrossTerms(layer, pair) ==
    {x \in Range(bl_s) \cup Range(bl_t) \cup Range(bl_a) :
        x.layer = layer /\ x.kind = "cross" /\ x.via = pair}

\* C8: in both models, for every forwarded layer, the cell of a modality pair
\* was invoked iff Block.__init__ instantiated it, no forward read a missing
\* attribute, and a layer that skipped a pair added no cross-modal term of that
\* pair to any stream.
C8_InvokedIffInstantiated ==
    bl_model \in {"audio_cast", "beats_Bsquare"} =>
        /\ bl_pc # "error"
        /\ \A k \in DOMAIN bl_trace :
              /\ bl_trace[k].layer = k - 1
              /\ bl_trace[k].missing = {}
              /\ \A pair \in ModelPairs :
                    /\ pair \in bl_trace[k].cells <=> PairModules(pair) \subseteq bl_blocks[k].modules
                    /\ pair \notin bl_trace[k].cells => PairModules(pair) \cap bl_blocks[k].modules = {}
                    /\ pair \notin bl_trace[k].cells => CrossTerms(k - 1, pair) = {}
                    /\ pair \in bl_trace[k].cells => CrossTerms(k - 1, pair) # {}

\* audio_cast with late_fusion = 2: layer 0 skipped the cell, layer 2 ran it
C8_Witness ==
    /\ bl_model = "audio_cast"
    /\ bl_cfg.late_fusion = 2
    /\ bl_cfg.CA = 0
    /\ Len(bl_trace) = 3
    /\ bl_trace[1].cells = {}
    /\ bl_trace[3].cells = {"s-t"}
    /\ CrossTerms(0, "s-t") = {}
    /\ Term(2, "cross", "s-t") \in Range(bl_s)

AdapterTerms(layer) ==
    {x \in Range(bl_s) \cup Range(bl_t) :
        x.layer = layer /\ x.kind \in {"mhsa", "ffn"} /\ x.via = "adapter"}

\* C9 as stated: in audio_cast, whatever use_Adapter was given, the adapters
\* of a forwarded layer i were active iff i >= late_fusion.
C9_AdaptersIffLate ==
    bl_model = "audio_cast" =>
        \A k \in DOMAIN bl_trace :
            bl_trace[k].adapters <=> (k - 1) >= bl_cfg.late_fusion

\* C9, amended: in audio_cast the self-attention and feed-forward adapters of a
\* forwarded layer i were active iff the constructor argument use_Adapter is
\* true or i >= late_fusion.
C9_AdaptersIffArgOrLate ==
    bl_model = "audio_cast" =>
        \A k \in DOMAIN bl_trace :
            /\ bl_trace[k].adapters <=> (bl_cfg.use_Adapter \/ (k - 1) >= bl_cfg.late_fusion)
            /\ bl_trace[k].adapters <=> AdapterTerms(k - 1) # {}
            /\ bl_trace[k].adapters =>
                  {Term(k - 1, "mhsa", "adapter"), Term(k - 1, "ffn", "adapter")}
                      \subseteq (Range(bl_s) \cap Range(bl_t))

\* use_Adapter = False and late_fusion = 1: layer 0 ran without adapters,
\* layer 1 with them
C9_Witness ==
    /\ bl_model = "audio_cast"
    /\ bl_cfg.use_Adapter = FALSE
    /\ bl_cfg.late_fusion = 1
    /\ Len(bl_trace) = 2
    /\ ~bl_trace[1].adapters
    /\ bl_trace[2].adapters

\* C10: in beats_Bsquare, with the enabled set CA = {CA, ..., 11}: a forwarded
\* layer ran the spatial-temporal cell iff CA_eq is false or the layer is in the
\* enabled set, and ran the spatial-audio and the temporal-audio cell iff the
\* layer is in the enabled set.
C10_CAeqGating ==
    bl_model = "beats_Bsquare" =>
        \A k \in DOMAIN bl_trace :
            LET enabled == (k - 1) >= bl_cfg.CA /\ (k - 1) < 12
            IN  /\ "s-t" \in bl_trace[k].cells <=> (~bl_cfg.CA_eq \/ enabled)
                /\ "s-audio" \in bl_trace[k].cells <=> enabled
                /\ "t-audio" \in bl_trace[k].cells <=> enabled

\* CA_eq with CA = 1: layer 0 ran no cell, layer 1 ran all three
C10_Witness ==
    /\ bl_model = "beats_Bsquare"
    /\ bl_cfg.CA_eq
    /\ bl_cfg.CA = 1
    /\ Len(bl_trace) = 2
    /\ bl_trace[1].cells = {}
    /\ bl_trace[2].cells = {"s-t", "s-audio", "t-audio"}

-----------------------------------------------------------------------------
(* Claims on the order of the stack                                        *)

\* C11: the blocks run once each in index order; the first block is given the
\* embedded streams and, in beats_Bsquare, no positional bias; every later
\* block is given exactly what its predecessor returned; once the loop is done
\* every block has run.
C11_StackOrder ==
    bl_model \in {"audio_cast", "beats_Bsquare"} =>
        /\ \A k \in DOMAIN bl_io :
              /\ bl_io[k].layer = k - 1
              /\ k = 1 => bl_io[k].given = [s |-> <<>>, t |-> <<>>, a |-> <<>>,
                                           pos_bias |-> "None"]
              /\ k > 1 => bl_io[k].given = bl_io[k - 1].returned
        /\ bl_pc = "returned" => Len(bl_io) = bl_cfg.depth
        /\ (bl_pc = "running" /\ bl_io # <<>>) =>
              bl_io[Len(bl_io)].returned =
                  [s |-> bl_s, t |-> bl_t, a |-> bl_a, pos_bias |-> bl_pos_bias]

\* a beats_Bsquare stack of three blocks, done: block 1 was given the bias
\* block 0 computed, block 2 was given what block 1 returned
C11_Witness ==
    /\ bl_model = "beats_Bsquare"
    /\ bl_pc = "returned"
    /\ Len(bl_io) = 3
    /\ bl_io[1].given.pos_bias = "None"
    /\ bl_io[2].given.pos_bias = <<"pos_bias", 0>>
    /\ bl_io[3].given.s = bl_io[2].returned.s
    /\ bl_io[3].given.s # bl_io[3].given.t

-----------------------------------------------------------------------------
(* SpecCell: the cross section of one Block.forward, cell by cell          *)
(*                                                                         *)
(* A stream is a sequence with one entry per row of the tensor's first     *)
(* axis (the axis DropPath draws its mask over): s_x is [n, b*t, d], text  *)
(* is [n, b*t, d], t_x is [b, t*n, d].  An entry is a term that records    *)
(* how the row was computed.                                               *)

\* largest number of first-axis rows of a stream
MaxRows == 2

Zero == <<"zero">>

Add(x, y) == IF y = Zero THEN x ELSE <<"add", x, y>>

InputStream(name, rows) == [i \in 1..rows |-> <<"in", name, i>>]

\* timm.models.layers.drop_path(x, drop_prob, training): the input itself when
\* drop_prob is 0 or outside training; otherwise one Bernoulli draw per row of
\* the first axis, a kept row divided by keep_prob, a dropped row zero
drop_path(x, keep, drop_prob_pos, training) ==
    IF ~drop_prob_pos \/ ~training
    THEN x
    ELSE [i \in DOMAIN x |-> IF keep[i] THEN <<"div_keep_prob", x[i]>> ELSE Zero]

\* DropPath(drop_path) if drop_path > 0. else nn.Identity()
DropPath(x, keep, drop_path_pos, training) ==
    IF drop_path_pos THEN drop_path(x, keep, TRUE, training) ELSE x

\* cross_l_up(act(r2l_cross(n_l, n_r))), cross_r_up(act(l2r_cross(n_l, n_r))):
\* the up-projected delta of one side, a function of both down-projected inputs
cross_up(type, side, l, r, rows) ==
    [i \in 1..rows |-> <<"delta", type, side, i, l, r>>]

ResidualDropsStream(x, c, keep, drop_path_pos, training) ==
    DropPath([i \in DOMAIN x |-> Add(x[i], c[i])], keep, drop_path_pos, training)

\* l = l + self.drop_path(c_l)
residual(x, c, keep, drop_path_pos, training) ==
    LET d == DropPath(c, keep, drop_path_pos, training)
    IN  [i \in DOMAIN x |-> Add(x[i], d[i])]

\* B_CAST.forward(l, r), and the cross lines of audio_cast's Block.forward
B_CAST_forward(type, l, r, keep_l, keep_r, cfg) ==
    LET c_l == cross_up(type, "l", l, r, Len(l))
        c_r == cross_up(type, "r", l, r, Len(r))
    IN  [l |-> residual(l, c_l, keep_l, cfg.drop_path_pos, cfg.training),
         r |-> residual(r, c_r, keep_r, cfg.drop_path_pos, cfg.training)]

\* the arguments of the three calls of the cross section
s_t_b_cast_args(s_x, t_x, text) == <<s_x, t_x>>

s_text_b_cast_args(s_x, t_x, text) == <<s_x, text>>

TTextArgsFromSpatial(s_x, t_x, text) == <<s_x, text>>

t_text_b_cast_args(s_x, t_x, text) == <<t_x, text>>

\* the masks DropPath can draw for a stream: all kept when it draws none
KeepMasks(x, cfg) ==
    IF cfg.drop_path_pos /\ cfg.training
    THEN [DOMAIN x -> BOOLEAN]
    ELSE {[i \in DOMAIN x |-> TRUE]}

InitCell ==
    /\ \E model \in {"audio_cast", "beats_Bsquare"}, CA_eq \in BOOLEAN, in_CA \in BOOLEAN,
          dp \in BOOLEAN, training \in BOOLEAN :
          \* in_CA: num_layer in self.CA; for audio_cast the condition
          \* num_layer >= self.CA and num_layer >= self.late_fusion
          /\ model = "audio_cast" => ~CA_eq
          /\ ce_cfg = [model |-> model, CA_eq |-> CA_eq, in_CA |-> in_CA,
                       drop_path_pos |-> dp, training |-> training]
    /\ \E n \in 1..MaxRows, B \in 1..MaxRows, m \in 1..MaxRows :
          ce_in = [s |-> InputStream("s", n), t |-> InputStream("t", B),
                   text |-> InputStream("text", m)]
    /\ ce_s = ce_in.s
    /\ ce_t = ce_in.t
    /\ ce_text = ce_in.text
    /\ ce_pc = "s-t"
    /\ ce_calls = <<>>
    /\ IdleAcc /\ IdleEnc /\ IdlePs /\ IdleTr /\ IdleBl /\ IdleAt /\ IdleCx /\ IdleFw /\ IdleOs /\ IdleLg /\ IdleEv /\ IdleMg

CellCall(type, args, keep_l, keep_r) ==
    LET out == B_CAST_forward(type, args[1], args[2], keep_l, keep_r, ce_cfg)
    IN  [type |-> type, l |-> args[1], r |-> args[2], keep_l |-> keep_l, keep_r |-> keep_r,
         l_out |-> out.l, r_out |-> out.r]

\* audio_cast Block.forward, the cross lines
AudioCastCross ==
    /\ ce_cfg.model = "audio_cast"
    /\ ce_pc = "s-t"
    /\ IF ce_cfg.in_CA
       THEN \E keep_l \in KeepMasks(ce_s, ce_cfg), keep_r \in KeepMasks(ce_t, ce_cfg) :
               LET call == CellCall("s-t", <<ce_s, ce_t>>, keep_l, keep_r)
               IN  /\ ce_s' = call.l_out
                   /\ ce_t' = call.r_out
                   /\ ce_calls' = Append(ce_calls, call)
       ELSE UNCHANGED <<ce_s, ce_t, ce_calls>>
    /\ ce_pc' = "done"
    /\ UNCHANGED <<ce_cfg, ce_in, ce_text>>
    /\ UNCHANGED notCe

\* beats_Bsquare Block.forward: s_x, t_x = self.s_t_b_cast(s_x, t_x)
BeatsCrossST ==
    /\ ce_cfg.model = "beats_Bsquare"
    /\ ce_pc = "s-t"
    /\ IF ~ce_cfg.CA_eq \/ ce_cfg.in_CA
       THEN LET args == s_t_b_cast_args(ce_s, ce_t, ce_text)
            IN  \E keep_l \in KeepMasks(args[1], ce_cfg), keep_r \in KeepMasks(args[2], ce_cfg) :
                   LET call == CellCall("s-t", args, keep_l, keep_r)
                   IN  /\ ce_s' = call.l_out
                       /\ ce_t' = call.r_out
                       /\ ce_calls' = Append(ce_calls, call)
       ELSE UNCHANGED <<ce_s, ce_t, ce_calls>>
    /\ ce_pc' = "s-audio"
    /\ UNCHANGED <<ce_cfg, ce_in, ce_text>>
    /\ UNCHANGED notCe

\* s_x, text = self.s_text_b_cast(s_x, text)
BeatsCrossSText ==
    /\ ce_cfg.model = "beats_Bsquare"
    /\ ce_pc = "s-audio"
    /\ IF ce_cfg.in_CA
       THEN LET args == s_text_b_cast_args(ce_s, ce_t, ce_text)
            IN  \E keep_l \in KeepMasks(args[1], ce_cfg), keep_r \in KeepMasks(args[2], ce_cfg) :
                   LET call == CellCall("s-audio", args, keep_l, keep_r)
                   IN  /\ ce_s' = call.l_out
                       /\ ce_text' = call.r_out
                       /\ ce_calls' = Append(ce_calls, call)
       ELSE UNCHANGED <<ce_s, ce_text, ce_calls>>
    /\ ce_pc' = "t-audio"
    /\ UNCHANGED <<ce_cfg, ce_in, ce_t>>
    /\ UNCHANGED notCe

\* t_x, text = self.t_text_b_cast(t_x, text)
BeatsCrossTText ==
    /\ ce_cfg.model = "beats_Bsquare"
    /\ ce_pc = "t-audio"
    /\ IF ce_cfg.in_CA
       THEN LET args == t_text_b_cast_args(ce_s, ce_t, ce_text)
            IN  \E keep_l \in KeepMasks(args[1], ce_cfg), keep_r \in KeepMasks(args[2], ce_cfg) :
                   LET call == CellCall("t-audio", args, keep_l, keep_r)
                   IN  /\ ce_t' = call.l_out
                       /\ ce_text' = call.r_out
                       /\ ce_calls' = Append(ce_calls, call)
       ELSE UNCHANGED <<ce_t, ce_text, ce_calls>>
    /\ ce_pc' = "done"
    /\ UNCHANGED <<ce_cfg, ce_in, ce_s>>
    /\ UNCHANGED notCe

NextCell ==
    \/ AudioCastCross
    \/ BeatsCrossST
    \/ BeatsCrossSText
    \/ BeatsCrossTText

SpecCell == InitCell /\ [][NextCell]_vars

-----------------------------------------------------------------------------
(* Claims on the cells of one layer                                        *)

CeBeats == ce_cfg # <<>> /\ ce_cfg.model = "beats_Bsquare"

CallsOf(type) == {k \in DOMAIN ce_calls : ce_calls[k].type = type}

\* the streams of the layer a cell of the given type reads: left, right
CellStreams(type) ==
    CASE type = "s-t" -> <<ce_in.s, ce_in.t>>
      [] type = "s-audio" -> <<ce_in.s, ce_in.text>>
      [] type = "t-audio" -> <<ce_in.t, ce_in.text>>

\* C12: the three cells of one beats_Bsquare layer have no data dependency on
\* one another: every cell is given the streams the cross section started
\* from, never a stream another cell of the layer returned.
C12_CellsIndependent ==
    CeBeats =>
        \A k \in DOMAIN ce_calls :
            /\ ce_calls[k].l = CellStreams(ce_calls[k].type)[1]
            /\ ce_calls[k].r = CellStreams(ce_calls[k].type)[2]

\* C12 as the code has it: the cells run in the order s-t, s-audio, t-audio and
\* are chained; the s-t cell is given the streams the cross section started
\* from, the s-audio cell the spatial stream the s-t cell returned and the
\* starting audio stream, the t-audio cell the temporal stream the s-t cell
\* returned and the audio stream the s-audio cell returned; the layer's
\* streams are what the last cell that wrote them returned.
C12_CellsChained ==
    CeBeats =>
        /\ \A k \in DOMAIN ce_calls :
              ce_calls[k].type = <<"s-t", "s-audio", "t-audio">>[k]
        /\ Len(ce_calls) >= 1 =>
              /\ ce_calls[1].l = ce_in.s
              /\ ce_calls[1].r = ce_in.t
        /\ Len(ce_calls) >= 2 =>
              /\ ce_calls[2].l = ce_calls[1].l_out
              /\ ce_calls[2].r = ce_in.text
        /\ Len(ce_calls) >= 3 =>
              /\ ce_calls[3].l = ce_calls[1].r_out
              /\ ce_calls[3].r = ce_calls[2].r_out
        /\ (ce_pc = "done" /\ Len(ce_calls) = 3) =>
              /\ ce_s = ce_calls[2].l_out
              /\ ce_t = ce_calls[3].l_out
              /\ ce_text = ce_calls[3].r_out

\* a layer of CA, done: all three cells ran, and the t-audio cell read an audio
\* stream that differs from the one the layer started from
C12_Witness ==
    /\ CeBeats
    /\ ce_pc = "done"
    /\ Len(ce_calls) = 3
    /\ ce_calls[3].r # ce_in.text
    /\ ce_calls[2].l # ce_in.s

\* whether DropPath draws a mask in this configuration
DropActive == ce_cfg.drop_path_pos /\ ce_cfg.training

\* the row the cell returned for row i is the row it was given, or the row it
\* was given plus something
RowKept(given, returned, i) ==
    \/ returned[i] = given[i]
    \/ /\ returned[i][1] = "add"
       /\ returned[i][2] = given[i]

\* C17: in a cross-modal cell (B_CAST.forward, and the cross lines of
\* audio_cast's Block.forward) the drop is applied to the up-projected delta
\* only: a row whose path is dropped is returned exactly as it was passed in,
\* and a row whose path is kept is the passed row plus the delta: the passed
\* row itself is never zeroed or rescaled.
C17_DropOnDeltaOnly ==
    \A k \in DOMAIN ce_calls :
        LET c == ce_calls[k] IN
        /\ DOMAIN c.l_out = DOMAIN c.l
        /\ DOMAIN c.r_out = DOMAIN c.r
        /\ \A i \in DOMAIN c.l :
              /\ RowKept(c.l, c.l_out, i)
              /\ (DropActive /\ ~c.keep_l[i]) => c.l_out[i] = c.l[i]
              /\ (DropActive /\ c.keep_l[i]) => c.l_out[i] # c.l[i]
        /\ \A i \in DOMAIN c.r :
              /\ RowKept(c.r, c.r_out, i)
              /\ (DropActive /\ ~c.keep_r[i]) => c.r_out[i] = c.r[i]
              /\ (DropActive /\ c.keep_r[i]) => c.r_out[i] # c.r[i]

\* a training call with a positive drop rate that dropped one row of the left
\* stream and kept another, and dropped a row of the right stream
C17_Witness ==
    /\ ce_calls # <<>>
    /\ DropActive
    /\ \E k \in DOMAIN ce_calls :
          /\ \E i, j \in DOMAIN ce_calls[k].l :
                /\ ~ce_calls[k].keep_l[i]
                /\ ce_calls[k].keep_l[j]
                /\ ce_calls[k].l_out[i] = ce_calls[k].l[i]
                /\ ce_calls[k].l_out[j] # ce_calls[k].l[j]
          /\ \E i \in DOMAIN ce_calls[k].r : ~ce_calls[k].keep_r[i]

-----------------------------------------------------------------------------
(* Tensors of tokens                                                       *)
(*                                                                         *)
(* A tensor is its shape without the feature axis d, and one value per     *)
(* index tuple (indices count from 0).  A value is a term that records     *)
(* what it was computed from: the token it stands for is the innermost     *)
(* <<"tok", stream, b, t, n>>.  An operation that raises leaves a failed   *)
(* tensor, and every later operation on it fails the same way.             *)

Tensor(shape, at) == [shape |-> shape, at |-> at, err |-> "none"]

Failed(msg) == [shape |-> <<>>, at |-> <<>>, err |-> msg]

IsOk(x) == x.err = "none"

RECURSIVE Prod(_)
Prod(q) == IF q = <<>> THEN 1 ELSE Head(q) * Prod(Tail(q))

RECURSIVE Sum(_)
Sum(q) == IF q = <<>> THEN 0 ELSE Head(q) + Sum(Tail(q))

Max(a, b) == IF a >= b THEN a ELSE b

\* the index tuples of a shape
Idx(shape) ==
    IF shape = <<>> THEN {<<>>}
    ELSE {i \in [1..Len(shape) -> 0..(SeqMax(shape) - 1)] :
             \A a \in 1..Len(shape) : i[a] < shape[a]}

\* ---- einops.rearrange(x, 'pin -> pout', **known) -------------------------
\* A pattern is a sequence of groups, a group a sequence of axis names:
\* 'n (b t) d -> b t n d' is <<<<"n">>, <<"b", "t">>>> -> <<<<"b">>, <<"t">>, <<"n">>>>.

AxesOf(p) == UNION {Range(p[g]) : g \in DOMAIN p}

GroupOf(p, a) == CHOOSE g \in DOMAIN p : a \in Range(p[g])

PosOf(p, a) == CHOOSE k \in DOMAIN p[GroupOf(p, a)] : p[GroupOf(p, a)][k] = a

\* product of the sizes given by name for the axes of a group
KnownProd(grp, known) ==
    Prod([k \in DOMAIN grp |-> IF grp[k] \in DOMAIN known THEN known[grp[k]] ELSE 1])

Unknown(grp, known) == {k \in DOMAIN grp : grp[k] \notin DOMAIN known}

\* einops raises when a group has two unknown axes or the given sizes do not
\* divide the axis
RearrangeOk(x, pin, known) ==
    /\ Len(x.shape) = Len(pin)
    /\ \A g \in DOMAIN pin :
          /\ Cardinality(Unknown(pin[g], known)) <= 1
          /\ KnownProd(pin[g], known) > 0
          /\ x.shape[g] % KnownProd(pin[g], known) = 0
          /\ Unknown(pin[g], known) = {} => KnownProd(pin[g], known) = x.shape[g]

AxisSizes(x, pin, known) ==
    [a \in AxesOf(pin) |->
        IF a \in DOMAIN known THEN known[a]
        ELSE x.shape[GroupOf(pin, a)] \div KnownProd(pin[GroupOf(pin, a)], known)]

GroupSize(grp, size) == Prod([k \in DOMAIN grp |-> size[grp[k]]])

\* the stride of the k-th axis of a group: axes to the right vary faster
Stride(grp, k, size) == Prod([j \in 1..(Len(grp) - k) |-> size[grp[k + j]]])

AxisValue(a, idx, p, size) ==
    (idx[GroupOf(p, a)] \div Stride(p[GroupOf(p, a)], PosOf(p, a), size)) % size[a]

\* Every operator on tensors binds its tensor arguments once (x_ \in {x}), so
\* that an argument is evaluated a single time however often the body reads it.

rearrange(x, pin, pout, known) ==
    CHOOSE out \in {(
        IF ~IsOk(x_) THEN x_
        ELSE IF ~RearrangeOk(x_, pin, known) THEN Failed("EinopsError")
        ELSE LET size == AxisSizes(x_, pin, known)
                 shape == [g \in DOMAIN pout |-> GroupSize(pout[g], size)]
                 from(o) == [g \in DOMAIN pin |->
                                Sum([k \in DOMAIN pin[g] |->
                                        AxisValue(pin[g][k], o, pout, size)
                                            * Stride(pin[g], k, size)])]
             IN  Tensor(shape, [o \in Idx(shape) |-> x_.at[from(o)]])
        ) : x_ \in {x}} : TRUE

\* ---- indexing, cat, expand, mean ------------------------------------------

SliceKeepsAll(x, k) == x

\* x[k:] on the first axis
slice_from(x, k) ==
    CHOOSE out \in {(
        IF ~IsOk(x_) THEN x_
        ELSE LET shape == [x_.shape EXCEPT ![1] = Max(x_.shape[1] - k, 0)]
             IN  Tensor(shape, [i \in Idx(shape) |-> x_.at[[i EXCEPT ![1] = @ + k]]])
        ) : x_ \in {x}} : TRUE

\* x[:k] on the first axis
slice_to(x, k) ==
    CHOOSE out \in {(
        IF ~IsOk(x_) THEN x_
        ELSE LET shape == [x_.shape EXCEPT ![1] = Min(x_.shape[1], k)]
             IN  Tensor(shape, [i \in Idx(shape) |-> x_.at[i]])
        ) : x_ \in {x}} : TRUE

\* x[k] on the first axis: the axis is gone
select(x, k) ==
    CHOOSE out \in {(
        IF ~IsOk(x_) THEN x_
        ELSE IF k >= x_.shape[1] THEN Failed("IndexError")
        ELSE LET shape == Tail(x_.shape)
             IN  Tensor(shape, [i \in Idx(shape) |-> x_.at[<<k>> \o i]])
        ) : x_ \in {x}} : TRUE

\* x.unsqueeze(dim), dim counted from 0
unsqueeze(x, dim) ==
    CHOOSE out \in {(
        IF ~IsOk(x_) THEN x_
        ELSE LET shape == SubSeq(x_.shape, 1, dim) \o <<1>> \o SubSeq(x_.shape, dim + 1, Len(x_.shape))
             IN  Tensor(shape, [i \in Idx(shape) |->
                                   x_.at[SubSeq(i, 1, dim) \o SubSeq(i, dim + 2, Len(i))]])
        ) : x_ \in {x}} : TRUE

\* x.expand with -1 everywhere but at dim (counted from 0), where it asks for k
expand(x, dim, k) ==
    CHOOSE out \in {(
        IF ~IsOk(x_) THEN x_
        ELSE IF x_.shape[dim + 1] # 1 /\ x_.shape[dim + 1] # k THEN Failed("RuntimeError")
        ELSE LET shape == [x_.shape EXCEPT ![dim + 1] = k]
             IN  Tensor(shape, [i \in Idx(shape) |->
                                   x_.at[IF x_.shape[dim + 1] = 1 THEN [i EXCEPT ![dim + 1] = 0] ELSE i]])
        ) : x_ \in {x}} : TRUE

\* torch.cat([x, y], dim=0)
cat0(x, y) ==
    CHOOSE out \in {(
        IF ~IsOk(x_) THEN x_
        ELSE IF ~IsOk(y_) THEN y_
        ELSE IF Len(x_.shape) # Len(y_.shape) \/ Tail(x_.shape) # Tail(y_.shape)
        THEN Failed("RuntimeError")
        ELSE LET shape == [x_.shape EXCEPT ![1] = @ + y_.shape[1]]
             IN  Tensor(shape, [i \in Idx(shape) |->
                                   IF i[1] < x_.shape[1] THEN x_.at[i]
                                   ELSE y_.at[[i EXCEPT ![1] = @ - x_.shape[1]]]])
        ) : x_ \in {x}, y_ \in {y}} : TRUE

\* x.mean(dim=dim), dim counted from 0: the axis is gone
mean(x, dim) ==
    CHOOSE out \in {(
        IF ~IsOk(x_) THEN x_
        ELSE LET shape == SubSeq(x_.shape, 1, dim) \o SubSeq(x_.shape, dim + 2, Len(x_.shape))
             IN  Tensor(shape, [i \in Idx(shape) |->
                    <<"mean", [j \in 1..x_.shape[dim + 1] |->
                                  x_.at[SubSeq(i, 1, dim) \o <<j - 1>> \o SubSeq(i, dim + 1, Len(i))]]>>])
        ) : x_ \in {x}} : TRUE

\* ---- broadcasting ---------------------------------------------------------

\* the shape two shapes broadcast to, aligned at the last axis; <<-1>> if none
PadTo(shape, n) == [a \in 1..(n - Len(shape)) |-> 1] \o shape

CanBroadcast(sx, sy) ==
    LET n == Max(Len(sx), Len(sy))
    IN  \A a \in 1..n : \/ PadTo(sx, n)[a] = PadTo(sy, n)[a]
                        \/ PadTo(sx, n)[a] = 1
                        \/ PadTo(sy, n)[a] = 1

BroadcastShape(sx, sy) ==
    LET n == Max(Len(sx), Len(sy))
    IN  [a \in 1..n |-> IF PadTo(sx, n)[a] = 1 THEN PadTo(sy, n)[a] ELSE PadTo(sx, n)[a]]

\* the index of x an index of the broadcast result reads
BroadcastIndex(i, sx) ==
    [a \in 1..Len(sx) |-> IF sx[a] = 1 THEN 0 ELSE i[a + (Len(i) - Len(sx))]]

\* one element of x + y: a stream value v with a positional parameter or a
\* time encoding w added to it, or the sum of two stream values
Combine(tag, v, w) == IF tag = "add" THEN <<"add", v, w>> ELSE <<tag, w, v>>

\* x + y elementwise by torch broadcasting; Combine gives the term of one sum
add(x, y, tag) ==
    CHOOSE out \in {(
        IF ~IsOk(x_) THEN x_
        ELSE IF ~IsOk(y_) THEN y_
        ELSE IF ~CanBroadcast(x_.shape, y_.shape) THEN Failed("RuntimeError")
        ELSE LET shape == BroadcastShape(x_.shape, y_.shape)
             IN  Tensor(shape, [i \in Idx(shape) |->
                                   Combine(tag, x_.at[BroadcastIndex(i, x_.shape)],
                                           y_.at[BroadcastIndex(i, y_.shape)])])
        ) : x_ \in {x}, y_ \in {y}} : TRUE

\* x elementwise through a layer that works on the feature axis only
map(x, layer) ==
    CHOOSE out \in {(
        IF ~IsOk(x_) THEN x_
        ELSE Tensor(x_.shape, [i \in DOMAIN x_.at |-> <<layer, x_.at[i]>>])
        ) : x_ \in {x}} : TRUE

\* a positional parameter of the given length: nn.Parameter(randn((len, dim)))
Parameter(name, len) == Tensor(<<len>>, [i \in Idx(<<len>>) |-> <<"param", name, i[1]>>])

\* x + self.<name>, the parameter aligned with the last axis of x before d
add_pos(x, name, len) == add(x, Parameter(name, len), "pos")

-----------------------------------------------------------------------------
(* The directed cross-attentions                                           *)
(*                                                                         *)
(* The head axis h and the feature axis d are left out of the tensors: a   *)
(* rearrange that only moves h or d ('b n (h d) -> b h n d') is the        *)
(* identity here.  The fused key/value projection keeps its axis e.        *)

\* F.linear(input=..., weight=self.q.weight, bias=self.q_bias)
linear_q(x) == map(x, "q")

\* F.linear(input=..., weight=self.kv.weight, bias=self.kv_bias): one fused
\* output per token, its last axis (e h d) holding the two halves e = 0, 1
linear_kv(x) ==
    CHOOSE out \in {(
        IF ~IsOk(x_) THEN x_
        ELSE LET shape == x_.shape \o <<2>>
             IN  Tensor(shape, [i \in Idx(shape) |->
                                   <<"kv", i[Len(i)], x_.at[SubSeq(i, 1, Len(i) - 1)]>>])
        ) : x_ \in {x}} : TRUE

\* q * self.scale
scale_q(q) == map(q, "scale")

\* q @ k.transpose(-2, -1): [b, n, m] from [b, n] and [b, m]; the batch axes
\* broadcast
matmul_qk(q, k) ==
    CHOOSE out \in {(
        IF ~IsOk(q_) THEN q_
        ELSE IF ~IsOk(k_) THEN k_
        ELSE IF ~CanBroadcast(<<q_.shape[1]>>, <<k_.shape[1]>>) THEN Failed("RuntimeError")
        ELSE LET shape == <<BroadcastShape(<<q_.shape[1]>>, <<k_.shape[1]>>)[1], q_.shape[2], k_.shape[2]>>
             IN  Tensor(shape, [i \in Idx(shape) |->
                                   <<"qk", q_.at[BroadcastIndex(<<i[1], i[2]>>, q_.shape)],
                                           k_.at[BroadcastIndex(<<i[1], i[3]>>, k_.shape)]>>])
        ) : q_ \in {q}, k_ \in {k}} : TRUE

\* attn.softmax(dim=dim), dim counted from 1 here: every entry is normalised
\* by the entries along that axis
softmax(attn, dim) ==
    CHOOSE out \in {(
        IF ~IsOk(attn_) THEN attn_
        ELSE Tensor(attn_.shape, [i \in DOMAIN attn_.at |->
                        <<"softmax", attn_.at[i],
                          [j \in 1..attn_.shape[dim] |-> attn_.at[[i EXCEPT ![dim] = j - 1]]]>>])
        ) : attn_ \in {attn}} : TRUE

\* attn @ v: [b, n] from [b, n, m] and [b, m]; the batch axes broadcast
matmul_av(attn, v) ==
    CHOOSE out \in {(
        IF ~IsOk(attn_) THEN attn_
        ELSE IF ~IsOk(v_) THEN v_
        ELSE IF ~CanBroadcast(<<attn_.shape[1]>>, <<v_.shape[1]>>) \/ attn_.shape[3] # v_.shape[2]
        THEN Failed("RuntimeError")
        ELSE LET shape == <<BroadcastShape(<<attn_.shape[1]>>, <<v_.shape[1]>>)[1], attn_.shape[2]>>
             IN  Tensor(shape, [i \in Idx(shape) |->
                    <<"attn_v", [j \in 1..v_.shape[2] |->
                        <<attn_.at[BroadcastIndex(<<i[1], i[2], j - 1>>, attn_.shape)],
                          v_.at[BroadcastIndex(<<i[1], j - 1>>, v_.shape)]>>]>>])
        ) : attn_ \in {attn}, v_ \in {v}} : TRUE

\* self.proj(...)
proj(x) == map(x, "proj")

\* the lines every cross-attention shares: q from one input, the fused kv
\* from the other, split into k = kv[0] and v = kv[1], softmax(dim=-1)
qkv_attention(q_in, kv_in) ==
    LET q == scale_q(linear_q(q_in))
        kv == rearrange(linear_kv(kv_in), <<<<"b">>, <<"n">>, <<"e">>>>, <<<<"e">>, <<"b">>, <<"n">>>>, [e |-> 2])
        k == select(kv, 0)
        v == select(kv, 1)
        attn == softmax(matmul_qk(q, k), 3)
    IN  proj(matmul_av(attn, v))

\* ---- beats_Bsquare --------------------------------------------------------
\* The positional parameters built with 196 rows (clip_space_pos,
\* vmae_space_pos) stand for frames of 196 patches; here a frame has cfg.N
\* patches and the parameter has as many rows.

\* CrossAttentionS2Audio.s2audio_cross_attn(s_x, audio)
s2audio_cross_attn(s_x, audio, cfg) ==
    LET s_x_pat ==
            IF ~cfg.attn_all_frame
            THEN add_pos(rearrange(slice_from(s_x, 1), <<<<"n">>, <<"b">>>>, <<<<"b">>, <<"n">>>>, <<>>), "clip_space_pos", cfg.N)
            ELSE LET s1 == add_pos(rearrange(slice_from(s_x, 1), <<<<"n">>, <<"b", "t">>>>, <<<<"b">>, <<"t">>, <<"n">>>>, [t |-> cfg.T]), "clip_space_pos", cfg.N)
                     s2 == add_pos(rearrange(s1, <<<<"b">>, <<"t">>, <<"n">>>>, <<<<"b">>, <<"n">>, <<"t">>>>, <<>>), "clip_temporal_pos", cfg.T)
                 IN  rearrange(s2, <<<<"b">>, <<"n">>, <<"t">>>>, <<<<"b">>, <<"n", "t">>>>, <<>>)
        audio_pat ==
            IF ~cfg.attn_all_frame
            THEN add_pos(rearrange(audio, <<<<"n">>, <<"b">>>>, <<<<"b">>, <<"n">>>>, <<>>), "audio_space_pos", cfg.A)
            ELSE LET a1 == add_pos(rearrange(audio, <<<<"n">>, <<"b", "t">>>>, <<<<"b">>, <<"t">>, <<"n">>>>, [t |-> cfg.ts]), "audio_space_pos", cfg.A)
                     a2 == add_pos(rearrange(a1, <<<<"b">>, <<"t">>, <<"n">>>>, <<<<"b">>, <<"n">>, <<"t">>>>, <<>>), "audio_temporal_pos", cfg.ts)
                 IN  rearrange(a2, <<<<"b">>, <<"n">>, <<"t">>>>, <<<<"b">>, <<"n", "t">>>>, <<>>)
        out == qkv_attention(audio_pat, s_x_pat)
    IN  IF ~cfg.attn_all_frame
        THEN rearrange(out, <<<<"b">>, <<"n">>>>, <<<<"n">>, <<"b">>>>, <<>>)
        ELSE rearrange(out, <<<<"b">>, <<"n", "t">>>>, <<<<"n">>, <<"b", "t">>>>, [t |-> cfg.ts])

\* CrossAttentionAudio2S.audio2s_cross_attn(s_x, audio)
audio2s_cross_attn(s_x, audio, cfg) ==
    LET s_x_cls == slice_to(s_x, 1)
        s_x_pat ==
            IF ~cfg.attn_all_frame
            THEN add_pos(rearrange(slice_from(s_x, 1), <<<<"n">>, <<"b">>>>, <<<<"b">>, <<"n">>>>, <<>>), "clip_space_pos", cfg.N)
            ELSE LET s1 == add_pos(rearrange(slice_from(s_x, 1), <<<<"n">>, <<"b", "t">>>>, <<<<"b">>, <<"t">>, <<"n">>>>, [t |-> cfg.T]), "clip_space_pos", cfg.N)
                     s2 == add_pos(rearrange(s1, <<<<"b">>, <<"t">>, <<"n">>>>, <<<<"b">>, <<"n">>, <<"t">>>>, <<>>), "clip_temporal_pos", cfg.T)
                 IN  rearrange(s2, <<<<"b">>, <<"n">>, <<"t">>>>, <<<<"b">>, <<"n", "t">>>>, <<>>)
        audio_pat ==
            IF ~cfg.attn_all_frame
            THEN add_pos(rearrange(audio, <<<<"n">>, <<"b">>>>, <<<<"b">>, <<"n">>>>, <<>>), "audio_space_pos", cfg.A)
            ELSE LET a1 == add_pos(rearrange(audio, <<<<"n">>, <<"b", "t">>>>, <<<<"b">>, <<"t">>, <<"n">>>>, [t |-> cfg.ts]), "audio_space_pos", cfg.A)
                     a2 == add_pos(rearrange(a1, <<<<"b">>, <<"t">>, <<"n">>>>, <<<<"b">>, <<"n">>, <<"t">>>>, <<>>), "audio_temporal_pos", cfg.ts)
                 IN  rearrange(a2, <<<<"b">>, <<"n">>, <<"t">>>>, <<<<"b">>, <<"n", "t">>>>, <<>>)
        out == qkv_attention(s_x_pat, audio_pat)
        x_pat == IF ~cfg.attn_all_frame
                 THEN rearrange(out, <<<<"b">>, <<"n">>>>, <<<<"n">>, <<"b">>>>, <<>>)
                 ELSE rearrange(out, <<<<"b">>, <<"n", "t">>>>, <<<<"n">>, <<"b", "t">>>>, [t |-> cfg.T])
    IN  cat0(s_x_cls, x_pat)

\* CrossAttentionT2Audio.t2audio_cross_attn(t_x, audio)
t2audio_cross_attn(t_x, audio, cfg) ==
    LET t_x_pat ==
            IF ~cfg.attn_all_frame
            THEN add_pos(rearrange(t_x, <<<<"b">>, <<"t", "n">>>>, <<<<"b", "t">>, <<"n">>>>, [t |-> cfg.T]), "vmae_space_pos", cfg.N)
            ELSE LET t1 == add_pos(rearrange(t_x, <<<<"b">>, <<"t", "n">>>>, <<<<"b">>, <<"t">>, <<"n">>>>, [t |-> cfg.T]), "vmae_space_pos", cfg.N)
                     t2 == add_pos(rearrange(t1, <<<<"b">>, <<"t">>, <<"n">>>>, <<<<"b">>, <<"n">>, <<"t">>>>, <<>>), "vmae_temporal_pos", cfg.T)
                 IN  rearrange(t2, <<<<"b">>, <<"n">>, <<"t">>>>, <<<<"b">>, <<"t", "n">>>>, <<>>)
        audio_pat ==
            IF ~cfg.attn_all_frame
            THEN add_pos(rearrange(audio, <<<<"n">>, <<"b">>>>, <<<<"b">>, <<"n">>>>, <<>>), "audio_space_pos", cfg.A)
            ELSE LET a1 == add_pos(rearrange(audio, <<<<"n">>, <<"b", "t">>>>, <<<<"b">>, <<"t">>, <<"n">>>>, [t |-> cfg.ts]), "audio_space_pos", cfg.A)
                     a2 == add_pos(rearrange(a1, <<<<"b">>, <<"t">>, <<"n">>>>, <<<<"b">>, <<"n">>, <<"t">>>>, <<>>), "audio_temporal_pos", cfg.ts)
                 IN  rearrange(a2, <<<<"b">>, <<"n">>, <<"t">>>>, <<<<"b">>, <<"n", "t">>>>, <<>>)
        out == qkv_attention(audio_pat, t_x_pat)
    IN  IF ~cfg.attn_all_frame
        THEN rearrange(out, <<<<"b">>, <<"n">>>>, <<<<"n">>, <<"b">>>>, <<>>)
        ELSE rearrange(out, <<<<"b">>, <<"n", "t">>>>, <<<<"n">>, <<"b", "t">>>>, [t |-> cfg.ts])

\* CrossAttentionAudio2T.audio2t_cross_attn(t_x, audio)
audio2t_cross_attn(t_x, audio, cfg) ==
    LET t_x_pat ==
            IF ~cfg.attn_all_frame
            THEN add_pos(rearrange(t_x, <<<<"b">>, <<"t", "n">>>>, <<<<"b", "t">>, <<"n">>>>, [t |-> cfg.T]), "vmae_space_pos", cfg.N)
            ELSE LET t1 == add_pos(rearrange(t_x, <<<<"b">>, <<"t", "n">>>>, <<<<"b">>, <<"t">>, <<"n">>>>, [t |-> cfg.T]), "vmae_space_pos", cfg.N)
                     t2 == add_pos(rearrange(t1, <<<<"b">>, <<"t">>, <<"n">>>>, <<<<"b">>, <<"n">>, <<"t">>>>, <<>>), "vmae_temporal_pos", cfg.T)
                 IN  rearrange(t2, <<<<"b">>, <<"n">>, <<"t">>>>, <<<<"b">>, <<"t", "n">>>>, <<>>)
        audio_pat ==
            IF ~cfg.attn_all_frame
            THEN add_pos(rearrange(audio, <<<<"n">>, <<"b">>>>, <<<<"b">>, <<"n">>>>, <<>>), "audio_space_pos", cfg.A)
            ELSE LET a1 == add_pos(rearrange(audio, <<<<"n">>, <<"b", "t">>>>, <<<<"b">>, <<"t">>, <<"n">>>>, [t |-> cfg.ts]), "audio_space_pos", cfg.A)
                     a2 == add_pos(rearrange(a1, <<<<"b">>, <<"t">>, <<"n">>>>, <<<<"b">>, <<"n">>, <<"t">>>>, <<>>), "audio_temporal_pos", cfg.ts)
                 IN  rearrange(a2, <<<<"b">>, <<"n">>, <<"t">>>>, <<<<"b">>, <<"n", "t">>>>, <<>>)
        out == qkv_attention(t_x_pat, audio_pat)
    IN  IF ~cfg.attn_all_frame
        THEN rearrange(out, <<<<"b", "t">>, <<"n">>>>, <<<<"b">>, <<"t", "n">>>>, [t |-> cfg.T])
        ELSE out

\* beats_Bsquare CrossAttentionS2T.s2t_cross_attn(s_x, t_x)
beats_s2t_cross_attn(s_x, t_x, cfg) ==
    LET B == t_x.shape[1]
        t == s_x.shape[2] \div t_x.shape[1]
        s_x_pat == add_pos(rearrange(slice_from(s_x, 1), <<<<"n">>, <<"b">>>>, <<<<"b">>, <<"n">>>>, <<>>), "clip_space_pos", cfg.N)
        t_x_pat == add_pos(rearrange(t_x, <<<<"b">>, <<"t", "n">>>>, <<<<"b", "t">>, <<"n">>>>, [t |-> t]), "vmae_space_pos", cfg.N)
        out == qkv_attention(t_x_pat, s_x_pat)
    IN  rearrange(out, <<<<"b", "t">>, <<"n">>>>, <<<<"b">>, <<"t", "n">>>>, [b |-> B])

\* beats_Bsquare CrossAttentionT2S.t2s_cross_attn(s_x, t_x)
beats_t2s_cross_attn(s_x, t_x, cfg) ==
    LET B == t_x.shape[1]
        t == s_x.shape[2] \div t_x.shape[1]
        s_x_cls == select(s_x, 0)
        s_x_pat == add_pos(rearrange(slice_from(s_x, 1), <<<<"n">>, <<"b", "t">>>>, <<<<"b", "n">>, <<"t">>>>, [b |-> B]), "clip_time_pos", cfg.T)
        t_x_pat == add_pos(rearrange(t_x, <<<<"b">>, <<"t", "n">>>>, <<<<"b", "n">>, <<"t">>>>, [t |-> t]), "vmae_time_pos", cfg.T)
        out == qkv_attention(s_x_pat, t_x_pat)
        x_pat == rearrange(out, <<<<"b", "n">>, <<"t">>>>, <<<<"n">>, <<"b", "t">>>>, [b |-> B])
    IN  cat0(unsqueeze(s_x_cls, 0), x_pat)

\* ---- audio_cast -----------------------------------------------------------
\* time_encodings = [s, t]: s is [b, spec_frames, audio_patch, d], t is
\* [b, num_frames // 2, video_patch, d]; added when time_encoding is on (the
\* concatenating variant changes widths only, see the constructor model)

TimeEncodings(cfg) ==
    <<Tensor(<<cfg.B, cfg.ts, cfg.A>>,
             [i \in Idx(<<cfg.B, cfg.ts, cfg.A>>) |-> <<"time_mlp", "s", i[1], i[2]>>]),
      Tensor(<<cfg.B, cfg.T, cfg.N>>,
             [i \in Idx(<<cfg.B, cfg.T, cfg.N>>) |-> <<"time_mlp", "t", i[1], i[2]>>])>>

\* audio_cast CrossAttentionS2T.s2t_cross_attn(s_x, t_x, time_encodings)
audio_s2t_cross_attn(s_x, t_x, time_encodings, cfg) ==
    LET B == t_x.shape[1]
        t == cfg.T
        s_x_pat ==
            IF ~cfg.attn_all_frame
            THEN LET s1 == add_pos(rearrange(slice_from(s_x, 1), <<<<"n">>, <<"b", "t">>>>, <<<<"b">>, <<"n">>, <<"t">>>>, [t |-> cfg.ts]), "clip_temporal_pos", cfg.ts)
                     s2 == rearrange(s1, <<<<"b">>, <<"n">>, <<"t">>>>, <<<<"b", "t">>, <<"n">>>>, <<>>)
                 IN  IF cfg.ts # t
                     THEN rearrange(expand(unsqueeze(s2, 1), 1, t \div cfg.ts), <<<<"b">>, <<"t">>, <<"n">>>>, <<<<"b", "t">>, <<"n">>>>, <<>>)
                     ELSE s2
            ELSE LET x1 == rearrange(slice_from(s_x, 1), <<<<"n">>, <<"b", "t">>>>, <<<<"b">>, <<"t">>, <<"n">>>>, [t |-> cfg.ts])
                     x2 == IF cfg.time_encoding THEN add(x1, time_encodings[1], "time") ELSE x1
                     x3 == IF cfg.use_stpos THEN add_pos(x2, "clip_space_pos", cfg.A) ELSE x2
                     x4 == rearrange(x3, <<<<"b">>, <<"t">>, <<"n">>>>, <<<<"b">>, <<"n">>, <<"t">>>>, <<>>)
                     x5 == IF cfg.use_stpos THEN add_pos(x4, "clip_temporal_pos", cfg.ts) ELSE x4
                 IN  rearrange(x5, <<<<"b">>, <<"n">>, <<"t">>>>, <<<<"b">>, <<"n", "t">>>>, <<>>)
        t_x_pat ==
            IF ~cfg.attn_all_frame
            THEN LET t1 == add_pos(rearrange(t_x, <<<<"b">>, <<"t", "n">>>>, <<<<"b">>, <<"n">>, <<"t">>>>, [t |-> t]), "vmae_temporal_pos", cfg.T)
                 IN  rearrange(t1, <<<<"b">>, <<"n">>, <<"t">>>>, <<<<"b", "t">>, <<"n">>>>, <<>>)
            ELSE LET x1 == rearrange(t_x, <<<<"b">>, <<"t", "n">>>>, <<<<"b">>, <<"t">>, <<"n">>>>, [t |-> t])
                     x2 == IF cfg.time_encoding THEN add(x1, time_encodings[2], "time") ELSE x1
                     x3 == IF cfg.use_stpos THEN add_pos(x2, "vmae_space_pos", cfg.N) ELSE x2
                     x4 == rearrange(x3, <<<<"b">>, <<"t">>, <<"n">>>>, <<<<"b">>, <<"n">>, <<"t">>>>, <<>>)
                     x5 == IF cfg.use_stpos THEN add_pos(x4, "vmae_temporal_pos", cfg.T) ELSE x4
                 IN  rearrange(x5, <<<<"b">>, <<"n">>, <<"t">>>>, <<<<"b">>, <<"n", "t">>>>, <<>>)
        out == qkv_attention(t_x_pat, s_x_pat)
    IN  IF ~cfg.attn_all_frame
        THEN rearrange(out, <<<<"b", "t">>, <<"n">>>>, <<<<"b">>, <<"t", "n">>>>, [b |-> B])
        ELSE rearrange(out, <<<<"b">>, <<"n", "t">>>>, <<<<"b">>, <<"t", "n">>>>, [t |-> t])

\* audio_cast CrossAttentionT2S.t2s_cross_attn(s_x, t_x, time_encodings)
audio_t2s_cross_attn(s_x, t_x, time_encodings, cfg) ==
    LET B == t_x.shape[1]
        t == cfg.T
        s_x_cls == select(s_x, 0)
        s_x_pat ==
            IF ~cfg.attn_all_frame
            THEN LET s1 == add_pos(rearrange(slice_from(s_x, 1), <<<<"n">>, <<"b", "t">>>>, <<<<"b">>, <<"n">>, <<"t">>>>, [t |-> cfg.ts]), "clip_temporal_pos", cfg.ts)
                     s2 == rearrange(s1, <<<<"b">>, <<"n">>, <<"t">>>>, <<<<"b", "t">>, <<"n">>>>, <<>>)
                 IN  IF cfg.ts # t
                     THEN rearrange(expand(unsqueeze(s2, 1), 1, t), <<<<"b">>, <<"t">>, <<"n">>>>, <<<<"b", "t">>, <<"n">>>>, <<>>)
                     ELSE s2
            ELSE LET x1 == rearrange(slice_from(s_x, 1), <<<<"n">>, <<"b", "t">>>>, <<<<"b">>, <<"t">>, <<"n">>>>, [t |-> cfg.ts])
                     x2 == IF cfg.time_encoding THEN add(x1, time_encodings[1], "time") ELSE x1
                     x3 == IF cfg.use_stpos THEN add_pos(x2, "clip_space_pos", cfg.A) ELSE x2
                     x4 == rearrange(x3, <<<<"b">>, <<"t">>, <<"n">>>>, <<<<"b">>, <<"n">>, <<"t">>>>, <<>>)
                     x5 == IF cfg.use_stpos THEN add_pos(x4, "clip_temporal_pos", cfg.ts) ELSE x4
                 IN  rearrange(x5, <<<<"b">>, <<"n">>, <<"t">>>>, <<<<"b">>, <<"n", "t">>>>, <<>>)
        t_x_pat ==
            IF ~cfg.attn_all_frame
            THEN LET t1 == add_pos(rearrange(t_x, <<<<"b">>, <<"t", "n">>>>, <<<<"b">>, <<"n">>, <<"t">>>>, [t |-> t]), "vmae_temporal_pos", cfg.T)
                 IN  rearrange(t1, <<<<"b">>, <<"n">>, <<"t">>>>, <<<<"b", "t">>, <<"n">>>>, <<>>)
            ELSE LET x1 == rearrange(t_x, <<<<"b">>, <<"t", "n">>>>, <<<<"b">>, <<"t">>, <<"n">>>>, [t |-> t])
                     x2 == IF cfg.time_encoding THEN add(x1, time_encodings[2], "time") ELSE x1
                     x3 == IF cfg.use_stpos THEN add_pos(x2, "vmae_space_pos", cfg.N) ELSE x2
                     x4 == rearrange(x3, <<<<"b">>, <<"t">>, <<"n">>>>, <<<<"b">>, <<"n">>, <<"t">>>>, <<>>)
                     x5 == IF cfg.use_stpos THEN add_pos(x4, "vmae_temporal_pos", cfg.T) ELSE x4
                 IN  rearrange(x5, <<<<"b">>, <<"n">>, <<"t">>>>, <<<<"b">>, <<"n", "t">>>>, <<>>)
        out == qkv_attention(s_x_pat, t_x_pat)
        x_pat == IF ~cfg.attn_all_frame
                 THEN IF cfg.ts # t
                      THEN mean(rearrange(out, <<<<"b", "t">>, <<"n">>>>, <<<<"n">>, <<"t">>, <<"b">>>>, [t |-> t]), 1)
                      ELSE rearrange(out, <<<<"b">>, <<"n">>>>, <<<<"n">>, <<"b">>>>, <<>>)
                 ELSE rearrange(out, <<<<"b">>, <<"n", "t">>>>, <<<<"n">>, <<"b", "t">>>>, [t |-> cfg.ts])
    IN  cat0(unsqueeze(s_x_cls, 0), x_pat)

-----------------------------------------------------------------------------
(* SpecAttn: one call of a cross-modal cell, token by token                *)
(*                                                                         *)
(* The cell is called in evaluation mode, where drop_path returns its      *)
(* input (SpecCell has the training mode).                                 *)

\* largest batch size
MaxBatch == 2
\* largest number of time chunks of the video (num_frames // 2) and of the
\* spectrogram (spec_frames)
MaxChunks == 2
\* largest number of patches of a frame and of a spectrogram chunk
MaxPatches == 2

Cells == {"s-t", "s-audio", "t-audio", "audio_cast"}

\* s_x = [n (b t) d] with the class token at n = 0
SpatialStream(name, B, t, n) ==
    Tensor(<<n + 1, B * t>>,
           [i \in Idx(<<n + 1, B * t>>) |-> <<"tok", name, i[2] \div t, i[2] % t, i[1]>>])

\* t_x = [b (t n) d]
TemporalStream(B, t, n) ==
    Tensor(<<B, t * n>>,
           [i \in Idx(<<B, t * n>>) |-> <<"tok", "t", i[1], i[2] \div n, (i[2] % n) + 1>>])

\* the audio stream of beats_Bsquare = [n (b t) d], no class token
AudioStream(B, t, n) ==
    Tensor(<<n, B * t>>,
           [i \in Idx(<<n, B * t>>) |-> <<"tok", "audio", i[2] \div t, i[2] % t, i[1] + 1>>])

\* self.ln_l_cross(self.cross_l_down(l))
cross_down(x) == map(x, "down")

\* self.cross_l_up(self.act(...))
cross_up_act(x) == map(x, "up")

\* l + self.drop_path(c_l) outside training
residual_eval(x, c) == add(x, c, "add")

\* the two attentions of a cell on the down-projected streams:
\* r2l updates the left stream, l2r the right stream
CellAttentionsChained(cell, n_l, n_r, cfg) ==
    CASE cell = "s-t" ->
            LET r2l == beats_t2s_cross_attn(n_l, n_r, cfg)
            IN  [r2l |-> r2l, l2r |-> beats_s2t_cross_attn(r2l, n_r, cfg)]
      [] cell = "s-audio" ->
            LET r2l == audio2s_cross_attn(n_l, n_r, cfg)
            IN  [r2l |-> r2l, l2r |-> s2audio_cross_attn(r2l, n_r, cfg)]
      [] cell = "t-audio" ->
            LET r2l == audio2t_cross_attn(n_l, n_r, cfg)
            IN  [r2l |-> r2l, l2r |-> t2audio_cross_attn(r2l, n_r, cfg)]
      [] cell = "audio_cast" ->
            LET r2l == audio_t2s_cross_attn(n_l, n_r, TimeEncodings(cfg), cfg)
            IN  [r2l |-> r2l, l2r |-> audio_s2t_cross_attn(r2l, n_r, TimeEncodings(cfg), cfg)]

\* n_l, n_r are read by both directions; the second is computed from the same
\* pair as the first
cell_attentions(cell, n_l, n_r, cfg) ==
    CASE cell = "s-t" ->
            [r2l |-> beats_t2s_cross_attn(n_l, n_r, cfg),
             l2r |-> beats_s2t_cross_attn(n_l, n_r, cfg)]
      [] cell = "s-audio" ->
            [r2l |-> audio2s_cross_attn(n_l, n_r, cfg),
             l2r |-> s2audio_cross_attn(n_l, n_r, cfg)]
      [] cell = "t-audio" ->
            [r2l |-> audio2t_cross_attn(n_l, n_r, cfg),
             l2r |-> t2audio_cross_attn(n_l, n_r, cfg)]
      [] cell = "audio_cast" ->
            [r2l |-> audio_t2s_cross_attn(n_l, n_r, TimeEncodings(cfg), cfg),
             l2r |-> audio_s2t_cross_attn(n_l, n_r, TimeEncodings(cfg), cfg)]

InitAttn ==
    /\ \E cell \in Cells, B \in 1..MaxBatch, T \in 1..MaxChunks, ts \in 1..MaxChunks,
          N \in 1..MaxPatches, A \in 1..MaxPatches, all \in BOOLEAN,
          te \in BOOLEAN, stpos \in BOOLEAN :
          \* time_encoding and use_stpos are arguments of audio_cast only
          /\ cell # "audio_cast" => (~te /\ stpos)
          /\ at_cfg = [cell |-> cell, B |-> B, T |-> T, ts |-> ts, N |-> N, A |-> A,
                       attn_all_frame |-> all, time_encoding |-> te, use_stpos |-> stpos]
    /\ at_l = CASE at_cfg.cell \in {"s-t", "s-audio"} ->
                      SpatialStream("s", at_cfg.B, at_cfg.T, at_cfg.N)
                [] at_cfg.cell = "t-audio" ->
                      TemporalStream(at_cfg.B, at_cfg.T, at_cfg.N)
                [] at_cfg.cell = "audio_cast" ->
                      SpatialStream("s", at_cfg.B, at_cfg.ts, at_cfg.A)
    /\ at_r = CASE at_cfg.cell \in {"s-t", "audio_cast"} ->
                      TemporalStream(at_cfg.B, at_cfg.T, at_cfg.N)
                [] OTHER -> AudioStream(at_cfg.B, at_cfg.ts, at_cfg.A)
    /\ at_pc = "ready"
    /\ at_r2l = <<>>
    /\ at_l2r = <<>>
    /\ at_l_out = <<>>
    /\ at_r_out = <<>>
    /\ IdleAcc /\ IdleEnc /\ IdlePs /\ IdleTr /\ IdleBl /\ IdleCe /\ IdleCx /\ IdleFw /\ IdleOs /\ IdleLg /\ IdleEv /\ IdleMg

\* B_CAST.forward(l, r) of the given type; the cross lines of audio_cast's
\* Block.forward
CellForward(cell) ==
    /\ at_pc = "ready"
    /\ at_cfg.cell = cell
    /\ \E att \in {cell_attentions(cell, cross_down(at_l), cross_down(at_r), at_cfg)} :
           /\ at_r2l' = att.r2l
           /\ at_l2r' = att.l2r
    /\ at_l_out' = residual_eval(at_l, cross_up_act(at_r2l'))
    /\ at_r_out' = residual_eval(at_r, cross_up_act(at_l2r'))
    /\ at_pc' = "done"
    /\ UNCHANGED <<at_cfg, at_l, at_r>>
    /\ UNCHANGED notAt

BCastST == CellForward("s-t")

BCastSAudio == CellForward("s-audio")

BCastTAudio == CellForward("t-audio")

AudioCastCell == CellForward("audio_cast")

NextAttn ==
    \/ BCastST
    \/ BCastSAudio
    \/ BCastTAudio
    \/ AudioCastCell

SpecAttn == InitAttn /\ [][NextAttn]_vars

-----------------------------------------------------------------------------
(* Claims on the cells, token by token                                     *)

AtDone == at_pc = "done"

\* C13: the two streams a cell returns have exactly the shapes of the two
\* streams it was given (and the call does not raise)
ShapesPreserved ==
    /\ IsOk(at_l_out) /\ at_l_out.shape = at_l.shape
    /\ IsOk(at_r_out) /\ at_r_out.shape = at_r.shape

\* the token a value of a stream stands for, under the per-token layers
RECURSIVE Base(_)
Base(v) ==
    CASE v[1] = "tok" -> v
      [] v[1] \in {"down", "q", "scale"} -> Base(v[2])
      [] v[1] \in {"pos", "time", "kv"} -> Base(v[3])

\* the attention rows (attn @ v) a value was computed from
RECURSIVE AttnTerms(_)
AttnTerms(v) ==
    CASE v[1] \in {"up", "proj"} -> AttnTerms(v[2])
      [] v[1] = "mean" -> UNION {AttnTerms(v[2][j]) : j \in DOMAIN v[2]}
      [] v[1] = "attn_v" -> {v}
      [] OTHER -> {}

\* of the j-th summand of an attention row: the softmax weight's query and
\* key, the entries the weight was normalised over, and the value
QueryOf(a, j) == a[2][j][1][2][2]
KeyOf(a, j) == a[2][j][1][2][3]
NormalisedOver(a, j) == a[2][j][1][3]
ValueOf(a, j) == a[2][j][2]

\* the tokens the queries of the attention rows of a value stand for
QueryTokens(v) ==
    UNION {{Base(QueryOf(a, j)) : j \in DOMAIN a[2]} : a \in AttnTerms(v)}

\* every entry of the returned stream is the given entry plus a delta computed
\* for that very token
PositionsKept(given, returned) ==
    \A i \in DOMAIN given.at :
        /\ returned.at[i][1] = "add"
        /\ returned.at[i][2] = given.at[i]
        /\ QueryTokens(returned.at[i][3]) \subseteq {given.at[i]}

\* C13: for every configuration the constructors accept, the two streams a
\* cross-modal cell returns have exactly the shapes of the two streams it was
\* given, and every returned token sits at the position of the token of the
\* receiving stream it was computed for.
C13_ShapePreserved ==
    AtDone =>
        /\ ShapesPreserved
        /\ PositionsKept(at_l, at_l_out)
        /\ PositionsKept(at_r, at_r_out)

-----------------------------------------------------------------------------
(* Claims on the direction of the attentions                               *)

\* the stream the tokens of a tensor belong to
StreamOf(x) == x.at[CHOOSE i \in DOMAIN x.at : TRUE][2]

IsCls(tok) == tok[2] = "s" /\ tok[5] = 0

\* one attention row: every summand pairs a softmax weight with a value;
\* the weight's query is the scaled q projection of one receiving token, the
\* same in every summand; its key is half 0 and the value half 1 of the fused
\* projection of one sending token; the weight is normalised over the
\* entries of this query with the keys of the row, and nothing else
RowDirected(a, receiving, sending) ==
    \A j \in DOMAIN a[2] :
        /\ QueryOf(a, j)[1] = "scale"
        /\ QueryOf(a, j)[2][1] = "q"
        /\ Base(QueryOf(a, j))[2] = receiving
        /\ QueryOf(a, j) = QueryOf(a, 1)
        /\ KeyOf(a, j)[1] = "kv" /\ KeyOf(a, j)[2] = 0
        /\ ValueOf(a, j)[1] = "kv" /\ ValueOf(a, j)[2] = 1
        /\ KeyOf(a, j)[3] = ValueOf(a, j)[3]
        /\ Base(KeyOf(a, j))[2] = sending
        /\ NormalisedOver(a, j) = [jj \in DOMAIN a[2] |-> <<"qk", QueryOf(a, j), KeyOf(a, jj)>>]

\* every row of the result is directed from the sending to the receiving stream
Directed(result, receiving, sending) ==
    IsOk(result) =>
        \A i \in DOMAIN result.at :
            \A a \in AttnTerms(result.at[i]) : RowDirected(a, receiving, sending)

\* the result has one row for every token of the receiving stream but the
\* class token, at the token's place
OneRowPerToken(result, given) ==
    IsOk(result) =>
        /\ result.shape = given.shape
        /\ \A i \in DOMAIN given.at :
              IF IsCls(given.at[i])
              THEN AttnTerms(result.at[i]) = {}
              ELSE /\ AttnTerms(result.at[i]) # {}
                   /\ QueryTokens(result.at[i]) = {given.at[i]}

AllDirected ==
    /\ Directed(at_r2l, StreamOf(at_l), StreamOf(at_r))
    /\ Directed(at_l2r, StreamOf(at_r), StreamOf(at_l))

\* C14: in every directed cross-attention the queries come from the receiving
\* stream's tokens, keys and values from the sending stream's tokens through
\* one fused projection split into a K half and a V half, the softmax
\* normalises over the sending stream's token axis only, and the output has
\* one row per receiving token.
C14_Direction ==
    AtDone =>
        /\ AllDirected
        /\ OneRowPerToken(at_r2l, at_l)
        /\ OneRowPerToken(at_l2r, at_r)

-----------------------------------------------------------------------------
(* Claims on the class token                                               *)

\* the attention rows of a whole result
AllRows(result) ==
    IF IsOk(result) THEN UNION {AttnTerms(result.at[i]) : i \in DOMAIN result.at} ELSE {}

\* the tokens used as queries, and as keys or values, in a result
QueriesIn(result) ==
    UNION {{Base(QueryOf(a, j)) : j \in DOMAIN a[2]} : a \in AllRows(result)}

KeysValuesIn(result) ==
    UNION {{Base(KeyOf(a, j)) : j \in DOMAIN a[2]} \cup {Base(ValueOf(a, j)) : j \in DOMAIN a[2]} :
           a \in AllRows(result)}

TokensOf(x) == {x.at[i] : i \in DOMAIN x.at}

SpatialLeft == at_cfg.cell \in {"s-t", "s-audio", "audio_cast"}

AudioRight == at_cfg.cell \in {"s-audio", "t-audio"}

\* C16: the token at index 0 of the spatial stream is never a query, a key or
\* a value; the attention that updates the spatial stream returns the class
\* token it was given at index 0, followed by one updated row per patch
\* token, each at the place of its token; no token of the audio stream is
\* left out, as key and value when audio is sent and as query when audio is
\* updated.
C16_ClassToken ==
    AtDone =>
        /\ \A tok \in QueriesIn(at_r2l) \cup QueriesIn(at_l2r)
                      \cup KeysValuesIn(at_r2l) \cup KeysValuesIn(at_l2r) : ~IsCls(tok)
        /\ (SpatialLeft /\ IsOk(at_r2l)) =>
              /\ at_r2l.shape = at_l.shape
              /\ \A i \in DOMAIN at_l.at :
                    IF i[1] = 0
                    THEN at_r2l.at[i] = cross_down(at_l).at[i]
                    ELSE /\ AttnTerms(at_r2l.at[i]) # {}
                         /\ QueryTokens(at_r2l.at[i]) = {at_l.at[i]}
        /\ (AudioRight /\ IsOk(at_r2l)) => KeysValuesIn(at_r2l) = TokensOf(at_r)
        /\ (AudioRight /\ IsOk(at_l2r)) => QueriesIn(at_l2r) = TokensOf(at_r)

\* an s-audio cell over two video chunks of two patches, done without raising:
\* the spatial stream came back with its class tokens in row 0 and the audio
\* stream was read whole
C16_Witness ==
    /\ AtDone
    /\ at_cfg.cell = "s-audio"
    /\ at_cfg.T = 2 /\ at_cfg.N = 2 /\ at_cfg.A = 2
    /\ IsOk(at_r2l) /\ IsOk(at_l2r)
    /\ at_r2l.at[<<0, 1>>] = <<"down", <<"tok", "s", 0, 1, 0>>>>
    /\ AttnTerms(at_r2l.at[<<2, 1>>]) # {}
    /\ KeysValuesIn(at_l2r) # {}

\* the attention that updates the left stream, on its own
RightToLeft(n_l, n_r, cfg) ==
    CASE cfg.cell = "s-t" -> beats_t2s_cross_attn(n_l, n_r, cfg)
      [] cfg.cell = "s-audio" -> audio2s_cross_attn(n_l, n_r, cfg)
      [] cfg.cell = "t-audio" -> audio2t_cross_attn(n_l, n_r, cfg)
      [] cfg.cell = "audio_cast" -> audio_t2s_cross_attn(n_l, n_r, TimeEncodings(cfg), cfg)

\* the attention that updates the right stream, on its own
LeftToRight(n_l, n_r, cfg) ==
    CASE cfg.cell = "s-t" -> beats_s2t_cross_attn(n_l, n_r, cfg)
      [] cfg.cell = "s-audio" -> s2audio_cross_attn(n_l, n_r, cfg)
      [] cfg.cell = "t-audio" -> t2audio_cross_attn(n_l, n_r, cfg)
      [] cfg.cell = "audio_cast" -> audio_s2t_cross_attn(n_l, n_r, TimeEncodings(cfg), cfg)

\* C30: in every cell each of the two attentions is what that attention
\* gives, computed on its own, on the down-projection of the two streams as
\* they were before the cell; so is each output stream, whichever of the two
\* is computed first.
C30_SamePreCellInputs ==
    AtDone =>
        /\ at_r2l = RightToLeft(cross_down(at_l), cross_down(at_r), at_cfg)
        /\ at_l2r = LeftToRight(cross_down(at_l), cross_down(at_r), at_cfg)
        /\ at_l_out = residual_eval(at_l, cross_up_act(
                           RightToLeft(cross_down(at_l), cross_down(at_r), at_cfg)))
        /\ at_r_out = residual_eval(at_r, cross_up_act(
                           LeftToRight(cross_down(at_l), cross_down(at_r), at_cfg)))

C30_Witness ==
    /\ AtDone
    /\ at_cfg.cell = "audio_cast"
    /\ at_cfg.B = 2 /\ at_cfg.T = 2
    /\ IsOk(at_r2l) /\ IsOk(at_l2r)
    /\ IsOk(at_l_out) /\ IsOk(at_r_out)
    /\ at_l_out # at_l /\ at_r_out # at_r

-----------------------------------------------------------------------------
(* SpecCtor: the widths of audio_cast's CrossAttentionS2T and              *)
(* CrossAttentionT2S, as built and as seen by every call                   *)

\* largest dim handed to the constructor
MaxDim == 8
\* largest n_head
MaxHeads == 2
\* number of forward calls followed
MaxCalls == 2

Linear(in_features, out_features) == [in_features |-> in_features, out_features |-> out_features]

\* CrossAttentionS2T.__init__ and CrossAttentionT2S.__init__ (the same lines
\* but for the names): the fields the widths depend on.  self.scale is
\* head_dim ** -0.5; scale_base is that head_dim.  head_dim = 0 raises
\* ZeroDivisionError.
CrossAttention_init(a) ==
    LET time_embedding_type == IF a.time_encoding THEN a.time_embedding_type ELSE FALSE
        dim == IF time_embedding_type
               THEN (IF a.time_encoding THEN a.dim * 2 ELSE a.dim)
               ELSE a.dim
        head_dim == dim \div a.n_head
        all_head_dim == head_dim * a.n_head
    IN  IF head_dim = 0 THEN [err |-> "ZeroDivisionError"]
        ELSE [err |-> "none",
              time_embedding_type |-> time_embedding_type,
              time_encoding |-> a.time_encoding,
              num_head |-> a.n_head,
              dim |-> a.dim,
              attn_all_frame |-> a.attn_all_frame,
              use_stpos |-> a.use_stpos,
              scale_base |-> head_dim,
              pos_width |-> dim,
              q |-> IF time_embedding_type
                    THEN Linear(dim, all_head_dim \div 2)
                    ELSE Linear(dim, all_head_dim),
              kv |-> IF time_embedding_type
                     THEN Linear(dim, all_head_dim)
                     ELSE Linear(dim, all_head_dim * 2),
              proj |-> IF time_embedding_type
                       THEN (IF a.time_encoding
                             THEN Linear(all_head_dim \div 2, dim \div 2)
                             ELSE Linear(all_head_dim, dim))
                       ELSE Linear(all_head_dim, dim)]

\* the width of an attention input after the time encoding: concatenated on
\* the feature axis, or added, in the all-frame branch only
input_width(self, x_width, te_width) ==
    IF self.attn_all_frame /\ self.time_embedding_type /\ self.time_encoding
    THEN x_width + te_width
    ELSE x_width

\* whether a positional parameter is added to the input
adds_pos(self) == ~self.attn_all_frame \/ self.use_stpos

\* s2t_cross_attn / t2s_cross_attn on streams of width self.dim with time
\* encodings of the same width: the widths along the call, or the error
cross_attn_widths(self) ==
    LET w_in == input_width(self, self.dim, self.dim)
        h == self.num_head
    IN  IF adds_pos(self) /\ w_in # self.pos_width /\ w_in # 1 /\ self.pos_width # 1
        THEN [err |-> "RuntimeError: positional parameter"]
        ELSE LET w == IF adds_pos(self) /\ w_in = 1 THEN self.pos_width ELSE w_in
             IN  IF w # self.q.in_features \/ w # self.kv.in_features
                 THEN [err |-> "RuntimeError: F.linear"]
                 ELSE IF self.q.out_features % h # 0 \/ self.kv.out_features % (2 * h) # 0
                 THEN [err |-> "EinopsError"]
                 ELSE IF self.q.out_features \div h # self.kv.out_features \div (2 * h)
                 THEN [err |-> "RuntimeError: matmul"]
                 ELSE IF (self.kv.out_features \div (2 * h)) * h # self.proj.in_features
                 THEN [err |-> "RuntimeError: proj"]
                 ELSE [err |-> "none",
                       input |-> w,
                       q |-> self.q.out_features,
                       k |-> self.kv.out_features \div 2,
                       v |-> self.kv.out_features \div 2,
                       q_head |-> self.q.out_features \div h,
                       scale_base |-> self.scale_base,
                       output |-> self.proj.out_features]

InitCtor ==
    /\ \E cls \in {"CrossAttentionS2T", "CrossAttentionT2S"}, dim \in 1..MaxDim,
          n_head \in 1..MaxHeads, te \in BOOLEAN, tet \in BOOLEAN, all \in BOOLEAN,
          stpos \in BOOLEAN :
          cx_args = [cls |-> cls, dim |-> dim, n_head |-> n_head, time_encoding |-> te,
                     time_embedding_type |-> tet, attn_all_frame |-> all, use_stpos |-> stpos]
    /\ cx_pc = "new"
    /\ cx_self = <<>>
    /\ cx_calls = <<>>
    /\ IdleAcc /\ IdleEnc /\ IdlePs /\ IdleTr /\ IdleBl /\ IdleCe /\ IdleAt /\ IdleFw /\ IdleOs /\ IdleLg /\ IdleEv /\ IdleMg

Construct(cls) ==
    /\ cx_pc = "new"
    /\ cx_args.cls = cls
    /\ cx_self' = CrossAttention_init(cx_args)
    /\ cx_pc' = IF cx_self'.err = "none" THEN "built" ELSE "error"
    /\ UNCHANGED <<cx_args, cx_calls>>
    /\ UNCHANGED notCx

ForwardCall(cls) ==
    /\ cx_pc = "built"
    /\ cx_args.cls = cls
    /\ Len(cx_calls) < MaxCalls
    /\ cx_calls' = Append(cx_calls, cross_attn_widths(cx_self))
    /\ cx_pc' = IF cx_calls'[Len(cx_calls')].err = "none" THEN "built" ELSE "error"
    /\ UNCHANGED <<cx_args, cx_self>>
    /\ UNCHANGED notCx

S2T_init == Construct("CrossAttentionS2T")

T2S_init == Construct("CrossAttentionT2S")

S2T_forward == ForwardCall("CrossAttentionS2T")

T2S_forward == ForwardCall("CrossAttentionT2S")

NextCtor ==
    \/ S2T_init
    \/ T2S_init
    \/ S2T_forward
    \/ T2S_forward

SpecCtor == InitCtor /\ [][NextCtor]_vars

-----------------------------------------------------------------------------
(* Claims on the concatenated time encoding                                *)

Concatenating == cx_args # <<>> /\ cx_args.time_encoding /\ cx_args.time_embedding_type

\* the width of each of q, k and v when the same class is built with the same
\* dim and n_head and no concatenation
PlainWidth == (cx_args.dim \div cx_args.n_head) * cx_args.n_head

\* C15: with time_encoding and time_embedding_type on, the attention input is
\* 2*dim wide, the query, key and value projections are each twice as wide as
\* without concatenation, and the query scale is (per-head width of the
\* projected query)^-0.5; the widths are those of the constructed object at
\* every call.
C15_ConcatWidths ==
    (Concatenating /\ cx_pc \in {"built", "error"}) =>
        /\ cx_self.err = "none"
        /\ cx_self.q.in_features = 2 * cx_args.dim
        /\ cx_self.q.out_features = 2 * PlainWidth
        /\ cx_self.kv.out_features = 2 * (2 * PlainWidth)
        /\ cx_self.scale_base = cx_self.q.out_features \div cx_self.num_head
        /\ \A k \in DOMAIN cx_calls :
              /\ cx_calls[k].err = "none"
              /\ cx_calls[k].input = 2 * cx_args.dim
              /\ cx_calls[k].q = cx_self.q.out_features
              /\ cx_calls[k].k = cx_self.kv.out_features \div 2
              /\ cx_calls[k].v = cx_self.kv.out_features \div 2
              /\ cx_calls[k].scale_base = cx_calls[k].q_head

-----------------------------------------------------------------------------
(* SpecFwd: STCrossTransformer.forward of audio_cast and beats_Bsquare     *)
(* from the stems to the heads.  The Blocks are followed in SpecBlocks,    *)
(* SpecCell and SpecAttn; here they are counted, and what they pool is     *)
(* drawn per call.                                                         *)

\* img_size of the constructed models
ImgSize == 4
\* patch_size of the constructed models
PatchSize == 2
\* largest height and width of a clip
MaxSide == 5
\* Blocks of the constructed models
FwdDepth == 2
\* forward calls followed on one model: a first and a second
Runs == {1, 2}
\* pooled features and dropout draws are told apart by a value of 0..MaxFeat
MaxFeat == 1

video_patch == (ImgSize \div PatchSize) * (ImgSize \div PatchSize)

\* nn.Conv2d / nn.Conv3d with kernel = stride = k on one side of length n:
\* the number of positions, 0 when the kernel does not fit (RuntimeError)
conv_out(n, k) == IF n < k THEN 0 ELSE (n - k) \div k + 1

\* x + embedding on the token axis, by torch broadcasting
pos_add_ok(rows, emb_rows) == rows = emb_rows \/ rows = 1 \/ emb_rows = 1

PatchEmbedNoAssert(H, W) ==
    IF conv_out(H, PatchSize) = 0 \/ conv_out(W, PatchSize) = 0
    THEN [err |-> "RuntimeError: proj", tokens |-> 0]
    ELSE [err |-> "none", tokens |-> conv_out(H, PatchSize) * conv_out(W, PatchSize)]

\* PatchEmbed.forward: tokens per frame pair
PatchEmbed_forward(H, W) ==
    IF ~(H = ImgSize /\ W = ImgSize)
    THEN [err |-> "AssertionError", tokens |-> 0]
    ELSE IF conv_out(H, PatchSize) = 0 \/ conv_out(W, PatchSize) = 0
    THEN [err |-> "RuntimeError: proj", tokens |-> 0]
    ELSE [err |-> "none", tokens |-> conv_out(H, PatchSize) * conv_out(W, PatchSize)]

FeaturesFailed(msg) == [err |-> msg, blocks_run |-> 0, s_x |-> <<>>, t_x |-> <<>>, a_x |-> <<>>]

\* the spatial stem on a frame of H x W: clip_conv1, the class token and the
\* positional embedding of emb_rows rows
spatial_stem(H, W, emb_rows) ==
    IF conv_out(H, PatchSize) = 0 \/ conv_out(W, PatchSize) = 0
    THEN "RuntimeError: clip_conv1"
    ELSE IF ~pos_add_ok(conv_out(H, PatchSize) * conv_out(W, PatchSize) + 1, emb_rows)
    THEN "RuntimeError: positional embedding"
    ELSE "none"

\* patch_embed and the addition of pos_embed
temporal_stem(H, W) ==
    LET e == PatchEmbed_forward(H, W)
    IN  IF e.err # "none" THEN e.err
        ELSE IF ~pos_add_ok(e.tokens, video_patch) THEN "RuntimeError: pos_embed"
        ELSE "none"

\* audio_cast STCrossTransformer.forward_features.  A given spectrogram has
\* the audio_patch patches the model was built for.
audio_cast_forward_features(self, x, spec, pooled) ==
    LET s_err == IF spec # "none" THEN "none"
                 ELSE spatial_stem(x.H, x.W, self.audio_patch + 1)
        t_err == temporal_stem(x.H, x.W)
    IN  IF s_err # "none" THEN FeaturesFailed(s_err)
        ELSE IF t_err # "none" THEN FeaturesFailed(t_err)
        ELSE [err |-> "none", blocks_run |-> FwdDepth,
              s_x |-> <<"clip_ln_post", pooled.s>>,
              t_x |-> <<"vmae_fc_norm", pooled.t>>,
              a_x |-> <<>>]

\* beats_Bsquare STCrossTransformer.forward_features
beats_forward_features(self, x, spec, pooled) ==
    LET s_err == spatial_stem(x.H, x.W, video_patch + 1)
        t_err == temporal_stem(x.H, x.W)
    IN  IF s_err # "none" THEN FeaturesFailed(s_err)
        ELSE IF t_err # "none" THEN FeaturesFailed(t_err)
        ELSE IF spec = "none"
        THEN FeaturesFailed("AttributeError: 'NoneType' object has no attribute 'dim'")
        ELSE [err |-> "none", blocks_run |-> FwdDepth,
              s_x |-> <<"clip_ln_post", pooled.s>>,
              t_x |-> <<"vmae_fc_norm", pooled.t>>,
              a_x |-> <<"mean", pooled.a>>]

\* nn.Dropout: the identity unless training with a positive rate, and then a
\* function of the module's draw
Dropout(name, x, self, draw) ==
    IF self.training /\ self.head_drop_rate_pos THEN <<"dropout", name, draw, x>> ELSE x

Adapter(name, x) == <<name, x>>

HeadLinear(name, x) == <<name, x>>

FeatSum(x, y) == <<"add", x, y>>

Half(x) == <<"div", x, 2>>

ForwardFailed(f) == [err |-> f.err, blocks_run |-> f.blocks_run, noun |-> <<>>, verb |-> <<>>, logits |-> <<>>]

\* audio_cast STCrossTransformer.forward, time encodings off
audio_cast_forward(self, x, spec, pooled, draw) ==
    LET f == audio_cast_forward_features(self, x,
                 IF ~self.composition /\ ~self.audio_enabled THEN "none" ELSE spec, pooled)
        fused == FeatSum(Adapter("noun_last_Adapter", f.s_x), Adapter("verb_last_Adapter", f.t_x))
    IN  IF f.err # "none" THEN ForwardFailed(f)
        ELSE IF self.composition
        THEN IF self.audio_enabled
             THEN [err |-> "none", blocks_run |-> f.blocks_run,
                   noun |-> HeadLinear("head_noun", Dropout("head_noun_dropout", fused, self, draw)),
                   verb |-> HeadLinear("head_verb", Dropout("head_verb_dropout", fused, self, draw)),
                   logits |-> <<>>]
             ELSE [err |-> "none", blocks_run |-> f.blocks_run,
                   noun |-> HeadLinear("head_noun", Dropout("head_noun_dropout", f.s_x, self, draw)),
                   verb |-> HeadLinear("head_verb", Dropout("head_verb_dropout", f.t_x, self, draw)),
                   logits |-> <<>>]
        ELSE IF self.audio_enabled
             THEN [err |-> "none", blocks_run |-> f.blocks_run, noun |-> <<>>, verb |-> <<>>,
                   logits |-> HeadLinear("head", Dropout("head_dropout", fused, self, draw))]
             ELSE [err |-> "none", blocks_run |-> f.blocks_run, noun |-> <<>>, verb |-> <<>>,
                   logits |-> HeadLinear("head", Dropout("head_dropout", Half(fused), self, draw))]

\* beats_Bsquare STCrossTransformer.forward; use_videoF and use_textF are
\* set to True by the constructor
beats_forward(self, x, spec, pooled, draw) ==
    LET f == beats_forward_features(self, x, spec, pooled)
    IN  IF f.err # "none" THEN ForwardFailed(f)
        ELSE IF self.composition
        THEN [err |-> "none", blocks_run |-> f.blocks_run,
              noun |-> HeadLinear("head_noun", Dropout("head_noun_dropout",
                          FeatSum(Adapter("noun_last_Adapter", f.s_x),
                               Adapter("text_noun_last_Adapter", f.a_x)), self, draw)),
              verb |-> HeadLinear("head_verb", Dropout("head_verb_dropout",
                          FeatSum(Adapter("verb_last_Adapter", f.t_x),
                               Adapter("text_verb_last_Adapter", f.a_x)), self, draw)),
              logits |-> <<>>]
        ELSE [err |-> "none", blocks_run |-> f.blocks_run, noun |-> <<>>, verb |-> <<>>,
              logits |-> HeadLinear("head", Dropout("head_dropout",
                          FeatSum(FeatSum(Adapter("noun_last_Adapter", f.s_x),
                                    Adapter("verb_last_Adapter", f.t_x)),
                               Adapter("text_verb_last_Adapter", f.a_x)), self, draw))]

STCrossTransformer_forward(self, x, spec, pooled, draw) ==
    IF self.model = "audio_cast"
    THEN audio_cast_forward(self, x, spec, pooled, draw)
    ELSE beats_forward(self, x, spec, pooled, draw)

InitFwd ==
    /\ \E model \in {"audio_cast", "beats_Bsquare"}, composition \in BOOLEAN,
          audio_enabled \in BOOLEAN, audio_patch \in {1, video_patch},
          training \in BOOLEAN, head_drop_rate_pos \in BOOLEAN :
          fw_self = [model |-> model, composition |-> composition,
                     audio_enabled |-> audio_enabled, audio_patch |-> audio_patch,
                     training |-> training, head_drop_rate_pos |-> head_drop_rate_pos]
    /\ \E H \in 1..MaxSide, W \in 1..MaxSide : fw_x = [H |-> H, W |-> W]
    /\ fw_spec \in {"none", "given"}
    /\ fw_calls = <<>>
    /\ IdleAcc /\ IdleEnc /\ IdlePs /\ IdleTr /\ IdleBl /\ IdleCe /\ IdleAt /\ IdleCx /\ IdleOs /\ IdleLg /\ IdleEv /\ IdleMg

Forward(model) ==
    /\ fw_self # <<>>
    /\ fw_self.model = model
    /\ Len(fw_calls) + 1 \in Runs
    /\ \E s \in 0..MaxFeat, t \in 0..MaxFeat, a \in 0..MaxFeat, draw \in 0..MaxFeat :
          LET pooled == [s |-> s, t |-> t, a |-> a]
              out == STCrossTransformer_forward(fw_self, fw_x, fw_spec, pooled, draw)
          IN  \* nothing is pooled by a call that raised in the stems, beats pools
              \* the audio stream only, and only an active dropout draws
              /\ (out.err # "none") => (s = 0 /\ t = 0 /\ a = 0 /\ draw = 0)
              /\ (fw_self.model = "audio_cast") => a = 0
              /\ ~(fw_self.training /\ fw_self.head_drop_rate_pos) => draw = 0
              /\ fw_calls' = Append(fw_calls, [pooled |-> pooled, draw |-> draw, out |-> out])
    /\ UNCHANGED <<fw_self, fw_x, fw_spec>>
    /\ UNCHANGED notFw

AudioCastForward == Forward("audio_cast")

BeatsForward == Forward("beats_Bsquare")

NextFwd ==
    \/ AudioCastForward
    \/ BeatsForward

SpecFwd == InitFwd /\ [][NextFwd]_vars

-----------------------------------------------------------------------------
(* Claims on forward                                                       *)

\* what the construction without audio returns for the same clip, the same
\* parameters and the same draws
NonAudioPath(call) ==
    STCrossTransformer_forward([fw_self EXCEPT !.audio_enabled = FALSE],
                               fw_x, "none", call.pooled, call.draw)

ShapeMismatch == fw_x # <<>> /\ (fw_x.H # ImgSize \/ fw_x.W # ImgSize)

\* a clip of the configured size on a model whose spatial positional
\* embedding has the rows of a video frame
ClipFits == fw_x # <<>> /\ ~ShapeMismatch /\ fw_self.audio_patch = video_patch

\* C18: on an audio-enabled model of either file, a forward call with
\* spec=None on a fitting clip raises nothing and returns what the
\* construction without audio returns for the same clip and parameters.
C18_NoSpecIsNonAudio ==
    (ClipFits /\ fw_self.audio_enabled /\ fw_spec = "none") =>
        \A k \in DOMAIN fw_calls :
            /\ fw_calls[k].out.err = "none"
            /\ fw_calls[k].out = NonAudioPath(fw_calls[k])

SameBut(field, c1, c2) ==
    /\ c1.draw = c2.draw
    /\ \A f \in {"s", "t", "a"} \ {field} : c1.pooled[f] = c2.pooled[f]

Returned(call) == call.out.err = "none"

\* C19: in composition mode two calls that differ only in the pooled temporal
\* feature return the same noun logits, and two calls that differ only in the
\* pooled spatial feature return the same verb logits.
C19_HeadsIndependent ==
    (fw_self # <<>> /\ fw_self.composition) =>
        \A i \in DOMAIN fw_calls, j \in DOMAIN fw_calls :
            (Returned(fw_calls[i]) /\ Returned(fw_calls[j])) =>
                /\ SameBut("t", fw_calls[i], fw_calls[j]) =>
                      fw_calls[i].out.noun = fw_calls[j].out.noun
                /\ SameBut("s", fw_calls[i], fw_calls[j]) =>
                      fw_calls[i].out.verb = fw_calls[j].out.verb

\* C20: when the height or the width of the clip differs from img_size, every
\* forward call raises before a Block has run and returns nothing: no
\* cropped or padded clip gets through.
C20_ShapeMismatchFails ==
    ShapeMismatch =>
        \A k \in DOMAIN fw_calls :
            /\ fw_calls[k].out.err # "none"
            /\ fw_calls[k].out.blocks_run = 0
            /\ fw_calls[k].out.noun = <<>>
            /\ fw_calls[k].out.verb = <<>>
            /\ fw_calls[k].out.logits = <<>>

\* a clip one row too tall, whose patches the convolutions would still
\* count as img_size's, stopped by the assertion of PatchEmbed.forward
C20_Witness ==
    /\ ShapeMismatch
    /\ conv_out(fw_x.H, PatchSize) = conv_out(ImgSize, PatchSize)
    /\ conv_out(fw_x.W, PatchSize) = conv_out(ImgSize, PatchSize)
    /\ \E k \in DOMAIN fw_calls : fw_calls[k].out.err = "AssertionError"

-----------------------------------------------------------------------------
(* SpecOvStep: one iteration of train_one_epoch of engine_for_prompt_OV,   *)
(* from the batch to the reported accuracies, by label.  The DeepSpeed     *)
(* path (loss_scaler is None) without mixup.                               *)

\* number of noun names of the label space
MaxVocab == 3

NounName(i) == <<"noun", i>>

\* list.index(x): the first position of x, counted from 0; -1 stands for the
\* ValueError of a missing x
list_index(lst, x) ==
    IF \E i \in DOMAIN lst : lst[i] = x
    THEN (CHOOSE i \in DOMAIN lst : lst[i] = x /\ \A j \in DOMAIN lst : lst[j] = x => i <= j) - 1
    ELSE 0 - 1

\* lists of distinct names
NameLists(names, maxlen) ==
    UNION {{s \in [1..n -> names] : \A i, j \in 1..n : i # j => s[i] # s[j]} : n \in 1..maxlen}

\* noun_targets_name = [nounlist[label[0]] for label in targets]
noun_targets_name(nounlist, targets) == [b \in DOMAIN targets |-> nounlist[targets[b][1] + 1]]

TrimmedToFirst(seen_nounlist, names) == [b \in DOMAIN names |-> Max(list_index(seen_nounlist, names[b]), 0)]

\* trimmed_targets = [seen_nounlist.index(name) for name in noun_targets_name]
trimmed_targets(seen_nounlist, names) == [b \in DOMAIN names |-> list_index(seen_nounlist, names[b])]

\* the noun labels handed to accuracy(noun_logits, targets[:,0], topk=(1, 5))
accuracy_noun_labels(targets) == [b \in DOMAIN targets |-> targets[b][1]]

\* action_target = (targets[:,1] * 1000) + targets[:,0]
action_target_of(targets) ==
    [b \in DOMAIN targets |-> ov_train_action_target(targets[b][1], targets[b][2])]

\* rows of a batch where the top-1 column is the label
Top1Correct(top1, labels) == {b \in DOMAIN labels : top1[b] = labels[b]}

InitOvStep ==
    /\ os_nounlist = [i \in 1..MaxVocab |-> NounName(i)]
    /\ os_seen \in NameLists(Range(os_nounlist), MaxVocab)
    /\ \E B \in BatchSizes :
          os_targets \in [1..B -> (0..(MaxVocab - 1)) \X (0..(NumVerbs - 1))]
    /\ os_pc = "ready"
    /\ os_trimmed = <<>>
    /\ os_step = <<>>
    /\ os_ops = <<>>
    /\ IdleAcc /\ IdleEnc /\ IdlePs /\ IdleTr /\ IdleBl /\ IdleCe /\ IdleAt /\ IdleCx /\ IdleFw /\ IdleLg /\ IdleEv /\ IdleMg

\* lines 97-103: the schedules, the action target and the trimmed targets
OvLookup ==
    /\ os_pc = "ready"
    /\ LET trimmed == trimmed_targets(os_seen, noun_targets_name(os_nounlist, os_targets))
       IN  IF \E b \in DOMAIN trimmed : trimmed[b] < 0
           THEN /\ os_pc' = "error"
                /\ os_trimmed' = <<>>
                /\ os_ops' = Append(os_ops, "ValueError")
           ELSE /\ os_pc' = "looked_up"
                /\ os_trimmed' = trimmed
                /\ os_ops' = os_ops
    /\ UNCHANGED <<os_nounlist, os_seen, os_targets, os_step>>
    /\ UNCHANGED notOs

\* lines 110-136: the forward pass and the losses in
\* composition_train_class_batch, the accuracies, the backward pass and the step
OvForward ==
    /\ os_pc = "looked_up"
    /\ \E top1_noun \in [DOMAIN os_targets -> 0..(Len(os_seen) - 1)],
          top1_verb \in [DOMAIN os_targets -> 0..(NumVerbs - 1)] :
          os_step' = [top1_noun |-> top1_noun,
                      top1_verb |-> top1_verb,
                      loss_noun_targets |-> os_trimmed,
                      loss_verb_targets |-> [b \in DOMAIN os_targets |-> os_targets[b][2]],
                      acc_noun_targets |-> accuracy_noun_labels(os_targets),
                      action_target |-> action_target_of(os_targets),
                      top1_noun_correct |->
                          Top1Correct(top1_noun, accuracy_noun_labels(os_targets)),
                      top1_action_correct |->
                          Top1Correct([b \in DOMAIN os_targets |->
                                          ov_accuracy_pred(top1_verb[b], top1_noun[b])],
                                      action_target_of(os_targets))]
    /\ os_ops' = os_ops \o <<"forward", "loss", "accuracy", "backward", "step">>
    /\ os_pc' = "done"
    /\ UNCHANGED <<os_nounlist, os_seen, os_targets, os_trimmed>>
    /\ UNCHANGED notOs

NextOvStep ==
    \/ OvLookup
    \/ OvForward

SpecOvStep == InitOvStep /\ [][NextOvStep]_vars

-----------------------------------------------------------------------------
(* Claims on the open-vocabulary training step                             *)

\* a target of the batch names a noun that is not in seen_nounlist
UnseenTarget ==
    os_pc # "idle" /\ \E b \in DOMAIN os_targets :
        os_nounlist[os_targets[b][1] + 1] \notin Range(os_seen)

\* C21: when the noun name of a target of the batch is missing from the
\* seen-noun list, the iteration ends in an error before the forward pass and
\* before any update: no row is skipped or given another class.
C21_UnseenNounRaises ==
    (UnseenTarget /\ os_pc # "ready") =>
        /\ os_pc = "error"
        /\ os_ops = <<"ValueError">>
        /\ os_trimmed = <<>>
        /\ os_step = <<>>

\* a batch of two whose second noun is not in the seen list has raised
C21_Witness ==
    /\ os_pc = "error"
    /\ Len(os_targets) = 2
    /\ os_nounlist[os_targets[1][1] + 1] \in Range(os_seen)
    /\ os_nounlist[os_targets[2][1] + 1] \notin Range(os_seen)

\* C29: the noun label the reported noun accuracy and action accuracy are
\* measured against is the position in the seen-noun list that the noun loss
\* uses.
C29_AccuracyLabelIsLossLabel ==
    os_pc = "done" =>
        \A b \in DOMAIN os_targets :
            /\ os_step.acc_noun_targets[b] = os_step.loss_noun_targets[b]
            /\ os_step.action_target[b] =
                  ov_train_action_target(os_step.loss_noun_targets[b], os_step.loss_verb_targets[b])

-----------------------------------------------------------------------------
(* SpecLogits: the cosine-similarity logits of engine_for_both_prompt and  *)
(* engine_for_prompt_OV.  Vectors have integer coordinates; a float result *)
(* is kept exactly as num / sqrt(den_sq), and 0 / sqrt(0) is NaN.          *)

\* largest coordinate of a feature vector
MaxCoord == 1
\* most text prototypes of one kind
MaxProtos == 2

\* feature vectors of two coordinates
Vecs == [1..2 -> 0..MaxCoord]

\* x.norm(dim=-1, keepdim=True), kept as its square
norm_sq(x) == x[1] * x[1] + x[2] * x[2]

\* x / x.norm(dim=-1, keepdim=True): every coordinate num / sqrt(den_sq)
normalised(x) == [i \in DOMAIN x |-> [num |-> x[i], den_sq |-> norm_sq(x)]]

\* a float that is 0 / 0
IsNaN(v) == v.num = 0 /\ v.den_sq = 0

\* one entry of outputs @ feature.t() / 0.07 (or of the bmm): NaN if a
\* coordinate of either vector is NaN, else sum(num_u * num_v) / sqrt(den_u *
\* den_v) / 0.07
cosine_logit(u, v) ==
    IF \E i \in DOMAIN u : IsNaN(u[i]) \/ IsNaN(v[i])
    THEN [num |-> 0, den_sq |-> 0, temperature |-> "0.07"]
    ELSE [num |-> u[1].num * v[1].num + u[2].num * v[2].num,
          den_sq |-> u[1].den_sq * v[1].den_sq,
          temperature |-> "0.07"]

similarity_logits(output, feature) ==
    [c \in DOMAIN feature |-> cosine_logit(normalised(output), normalised(feature[c]))]

\* outputs_verb of the both-prompt model are the logits of a linear head
head_logits(output) == [c \in DOMAIN output |-> [num |-> output[c], den_sq |-> 1, temperature |-> "1"]]

Sites == {"bp_train", "ov_train", "ov_validation"}

InitLogits ==
    /\ lg_site \in Sites
    /\ lg_pc = "ready"
    /\ lg_outputs \in [noun : Vecs, verb : Vecs]
    /\ \E n \in 1..MaxProtos :
          lg_features \in [noun : [1..n -> Vecs], verb : [1..1 -> Vecs]]
    \* the both-prompt engine has no verb prototypes
    /\ lg_site = "bp_train" => lg_features.verb = <<[i \in 1..2 |-> 0]>>
    /\ lg_logits = <<>>
    /\ IdleAcc /\ IdleEnc /\ IdlePs /\ IdleTr /\ IdleBl /\ IdleCe /\ IdleAt /\ IdleCx /\ IdleFw /\ IdleOs /\ IdleEv /\ IdleMg

\* engine_for_both_prompt.composition_train_class_batch, lines 26-28
BpTrainLogits ==
    /\ lg_pc = "ready"
    /\ lg_site = "bp_train"
    /\ lg_logits' = [noun |-> similarity_logits(lg_outputs.noun, lg_features.noun),
                     verb |-> head_logits(lg_outputs.verb)]
    /\ lg_pc' = "done"
    /\ UNCHANGED <<lg_site, lg_outputs, lg_features>>
    /\ UNCHANGED notLg

\* engine_for_prompt_OV.composition_train_class_batch, lines 41-47
OvTrainLogits ==
    /\ lg_pc = "ready"
    /\ lg_site = "ov_train"
    /\ lg_logits' = [noun |-> similarity_logits(lg_outputs.noun, lg_features.noun),
                     verb |-> similarity_logits(lg_outputs.verb, lg_features.verb)]
    /\ lg_pc' = "done"
    /\ UNCHANGED <<lg_site, lg_outputs, lg_features>>
    /\ UNCHANGED notLg

\* engine_for_prompt_OV.validation_one_epoch, lines 243-249
OvValidationLogits ==
    /\ lg_pc = "ready"
    /\ lg_site = "ov_validation"
    /\ lg_logits' = [noun |-> similarity_logits(lg_outputs.noun, lg_features.noun),
                     verb |-> similarity_logits(lg_outputs.verb, lg_features.verb)]
    /\ lg_pc' = "done"
    /\ UNCHANGED <<lg_site, lg_outputs, lg_features>>
    /\ UNCHANGED notLg

NextLogits ==
    \/ BpTrainLogits
    \/ OvTrainLogits
    \/ OvValidationLogits

SpecLogits == InitLogits /\ [][NextLogits]_vars

\* C22: wherever a pooled feature or a text prototype is normalised, a
\* zero-norm vector is caught before the division: no logit computed from an
\* all-zero vector is NaN.
C22_NoNaNLogit ==
    lg_pc = "done" =>
        /\ \A c \in DOMAIN lg_logits.noun : ~IsNaN(lg_logits.noun[c])
        /\ \A c \in DOMAIN lg_logits.verb : ~IsNaN(lg_logits.verb[c])

-----------------------------------------------------------------------------
(* SpecEval: validation_one_epoch of the open-vocabulary engine and        *)
(* final_test of the three engines: the meters and the result lines        *)

\* longest data loader of an evaluation pass, in batches
MaxEvBatches == 2

\* topk=(1, 5) of the evaluation calls; with the two classes of the model
\* the second entry is 2
EvTopk == <<1, 2>>

EvFns == {"ov_validation", "ov_final_test", "bp_final_test", "ft_final_test"}

\* ids[i], chunk_nb[i], split_nb[i] of a sample
EvViews == {[id |-> "v1", chunk |-> 0, split |-> 0], [id |-> "v2", chunk |-> 1, split |-> 2]}

\* the logits of a sample: noun top-1 is 0 or 1, verb top-1 is 0
EvNounRows == {<<2, 1>>, <<1, 2>>}
EvVerbRows == {<<2, 1>>}

\* target[:,0], target[:,1]
EvLabels == {<<0, 0>>, <<0, 1>>}

\* one sample of a batch with what the model returns for it.  The row of a
\* tensor is indexed from 1 here, its columns are the classes 0, 1.
EvSample(view, seen, noun, verb, label) ==
    [id |-> view.id, chunk |-> view.chunk, split |-> view.split, seen |-> seen,
     noun |-> [c \in 0..1 |-> noun[c + 1]], verb |-> [c \in 0..1 |-> verb[c + 1]],
     target |-> label]

\* validation_one_epoch does not read the ids, chunks and splits of its batch
EvViewsOf(fn) == IF fn = "ov_validation" THEN {[id |-> "v1", chunk |-> 0, split |-> 0]}
                 ELSE EvViews

EvSamples(fn) ==
    IF fn \in {"ov_validation", "ov_final_test"}
    THEN {EvSample(w, s, n, v, l) :
              w \in EvViewsOf(fn), s \in {0, 1}, n \in EvNounRows, v \in EvVerbRows,
              l \in EvLabels}
    ELSE {EvSample(w, 0, n, v, <<0, 0>>) : w \in EvViews, n \in EvNounRows, v \in EvVerbRows}

EvBatchesOf(fn) == UNION {[1..B -> EvSamples(fn)] : B \in BatchSizes}

\* str(int(x)): the decimal digits of a number that is not negative
str_int(n) == IF n < 10 THEN <<n>> ELSE <<n \div 10, n % 10>>

\* str(tensor.data[i].cpu().numpy().tolist())
str_list(row) == [list |-> row]

\* "{} {} {} {} {} {} {} {}\n".format(...) of the prompt engines: the fields
\* of the line, in order
composition_line(id, noun_logits, verb_logits, action_target, noun, verb, chunk_nb, split_nb) ==
    <<id, str_list(noun_logits), str_list(verb_logits), str_int(action_target),
      str_int(noun), str_int(verb), str_int(chunk_nb), str_int(split_nb)>>

\* "{} {} {} {} {}\n".format(...) of engine_for_finetuning
ft_line(ids_i, output_i, target_i, chunk_nb_i, split_nb_i) ==
    <<ids_i, str_list(output_i), str_int(target_i), str_int(chunk_nb_i), str_int(split_nb_i)>>

ov_final_test_line(x) ==
    composition_line(x.id, x.noun, x.verb,
                     ov_final_test_action_target(x.target[1], x.target[2]),
                     x.target[1], x.target[2], x.chunk, x.split)

bp_final_test_line(x) ==
    composition_line(x.id, x.noun, x.verb,
                     bp_final_test_action_target(x.target[1], x.target[2]),
                     x.target[1], x.target[2], x.chunk, x.split)

ft_final_test_line(x) == ft_line(x.id, x.noun, x.target[1], x.chunk, x.split)

\* timm.utils.accuracy(output, target, topk): per k, 100 * (rows whose target
\* is among the k largest columns) / batch_size
accuracy(output, target, tk) ==
    LET batch_size == Len(target)
    IN  [i \in 1..Len(tk) |->
            Frac(100 * Cardinality({b \in 1..batch_size :
                                       \E r \in 1..tk[i] : topk(output[b], tk[i])[r] = target[b]}),
                 batch_size)]

\* torch.tensor(0)
TensorZero == Frac(0, 1)

\* SmoothedValue: count and total
NewMeter == [count |-> 0, total |-> Frac(0, 1)]

MeterNames ==
    {"acc1_action_seen", "acc1_noun_seen", "acc5_noun_seen",
     "acc1_action_unseen", "acc1_noun_unseen", "acc5_noun_unseen",
     "acc1_action", "acc1_noun", "acc1_verb", "acc5_noun", "acc5_verb", "acc1", "acc5"}

\* meters[name].update(value, n): count += n; total += value * n
meter_update(meters, name, value, n) ==
    [meters EXCEPT ![name] =
        [count |-> @.count + n,
         total |-> Frac(@.total[1] * value[2] + value[1] * n * @.total[2],
                        @.total[2] * value[2])]]

MaskedAll(batch, v) == batch

\* tensor[seen_indicator == v]: the rows whose flag is v, in order
masked(batch, v) == SelectSeq(batch, LAMBDA x : x.seen = v)

nouns_of(batch) == [b \in DOMAIN batch |-> batch[b].noun]
verbs_of(batch) == [b \in DOMAIN batch |-> batch[b].verb]
noun_targets_of(batch) == [b \in DOMAIN batch |-> batch[b].target[1]]
verb_targets_of(batch) == [b \in DOMAIN batch |-> batch[b].target[2]]
ov_action_targets_of(batch) ==
    [b \in DOMAIN batch |-> ov_validation_action_target(batch[b].target[1], batch[b].target[2])]

\* the accuracies of one batch of the open-vocabulary passes
ov_batch_accuracies(batch) ==
    LET seen == masked(batch, 1)
        unseen == masked(batch, 0)
        act(rows) == action_accuracy(nouns_of(rows), verbs_of(rows),
                                     ov_action_targets_of(rows), EvTopk)
        noun(rows) == accuracy(nouns_of(rows), noun_targets_of(rows), EvTopk)
    IN  [seen_B |-> Len(seen),
         unseen_B |-> Len(unseen),
         acc1_action_seen |-> IF Len(seen) = 0 THEN TensorZero ELSE act(seen)[1],
         acc1_action_unseen |-> IF Len(unseen) = 0 THEN TensorZero ELSE act(unseen)[1],
         acc1_action |-> act(batch)[1],
         acc1_noun_seen |-> IF Len(seen) = 0 THEN TensorZero ELSE noun(seen)[1],
         acc5_noun_seen |-> IF Len(seen) = 0 THEN TensorZero ELSE noun(seen)[2],
         acc1_noun_unseen |-> IF Len(unseen) = 0 THEN TensorZero ELSE noun(unseen)[1],
         acc5_noun_unseen |-> IF Len(unseen) = 0 THEN TensorZero ELSE noun(unseen)[2],
         acc1_noun |-> noun(batch)[1],
         acc5_noun |-> noun(batch)[2],
         acc1_verb |-> accuracy(verbs_of(batch), verb_targets_of(batch), EvTopk)[1],
         acc5_verb |-> accuracy(verbs_of(batch), verb_targets_of(batch), EvTopk)[2]]

\* consecutive updates of the meters: a sequence of <<name, value, n>>
RECURSIVE meter_updates(_, _)
meter_updates(meters, ups) ==
    IF ups = <<>> THEN meters
    ELSE meter_updates(meter_update(meters, ups[1][1], ups[1][2], ups[1][3]), Tail(ups))

\* the updates of the meters after one batch of the open-vocabulary passes
ov_meter_updates(meters, a, batch_size) ==
    meter_updates(meters,
        (IF a.seen_B # 0
         THEN <<<<"acc1_action_seen", a.acc1_action_seen, a.seen_B>>,
                <<"acc1_noun_seen", a.acc1_noun_seen, a.seen_B>>,
                <<"acc5_noun_seen", a.acc5_noun_seen, a.seen_B>>>>
         ELSE <<>>)
        \o (IF a.unseen_B # 0
            THEN <<<<"acc1_action_unseen", a.acc1_action_unseen, a.unseen_B>>,
                   <<"acc1_noun_unseen", a.acc1_noun_unseen, a.unseen_B>>,
                   <<"acc5_noun_unseen", a.acc5_noun_unseen, a.unseen_B>>>>
            ELSE <<>>)
        \o <<<<"acc1_action", a.acc1_action, batch_size>>,
             <<"acc1_noun", a.acc1_noun, batch_size>>,
             <<"acc1_verb", a.acc1_verb, batch_size>>,
             <<"acc5_noun", a.acc5_noun, batch_size>>,
             <<"acc5_verb", a.acc5_verb, batch_size>>>>)

\* metric_logger.update(acc1=...); metric_logger.meters['acc1'].update(..., n=batch_size)
ft_meter_updates(meters, acc, batch_size) ==
    meter_updates(meters,
        <<<<"acc1", acc[1], 1>>, <<"acc5", acc[2], 1>>,
          <<"acc1", acc[1], batch_size>>, <<"acc5", acc[2], batch_size>>>>)

InitEval ==
    /\ ev_fn \in EvFns
    /\ ev_loader_len \in 1..MaxEvBatches
    /\ ev_pc = "running"
    /\ ev_err = "none"
    /\ ev_idx = 0
    /\ ev_taken = <<>>
    /\ ev_batch = <<>>
    /\ ev_meters = [m \in MeterNames |-> NewMeter]
    /\ ev_before = [m \in MeterNames |-> NewMeter]
    /\ ev_string = "unbound"
    /\ ev_final_result = <<>>
    /\ ev_file = [written |-> FALSE, header |-> <<>>, lines |-> <<>>]
    /\ IdleAcc /\ IdleEnc /\ IdlePs /\ IdleTr /\ IdleBl /\ IdleCe /\ IdleAt /\ IdleCx /\ IdleFw /\ IdleOs /\ IdleLg /\ IdleMg

\* what every batch does first: the batch is taken from the loader
TakeBatch(batch) ==
    /\ ev_pc = "running"
    /\ ev_idx < ev_loader_len
    /\ ev_idx' = ev_idx + 1
    /\ ev_batch' = batch
    /\ ev_taken' = ev_taken \o batch
    /\ ev_before' = ev_meters
    /\ UNCHANGED <<ev_fn, ev_loader_len, ev_file>>
    /\ UNCHANGED notEv

\* one iteration of validation_one_epoch of engine_for_prompt_OV
OvValidationMeters ==
    /\ ev_fn = "ov_validation"
    /\ \E batch \in EvBatchesOf(ev_fn) :
          /\ TakeBatch(batch)
          /\ \E a \in {ov_batch_accuracies(batch)} :
                ev_meters' = ov_meter_updates(ev_meters, a, Len(batch))
    /\ UNCHANGED <<ev_pc, ev_err, ev_string, ev_final_result>>

\* one iteration of final_test of engine_for_prompt_OV
OvFinalTestLines ==
    /\ ev_fn = "ov_final_test"
    /\ \E batch \in EvBatchesOf(ev_fn) :
          /\ TakeBatch(batch)
          /\ ev_final_result' =
                ev_final_result \o [i \in DOMAIN batch |-> ov_final_test_line(batch[i])]
          /\ ev_string' = ov_final_test_line(batch[Len(batch)])
          /\ \E a \in {ov_batch_accuracies(batch)} :
                ev_meters' = ov_meter_updates(ev_meters, a, Len(batch))
    /\ UNCHANGED <<ev_pc, ev_err>>

\* one iteration of final_test of engine_for_both_prompt: final_result.append(string)
\* comes, once a batch, before the loop that assigns string
BpFinalTestLines ==
    /\ ev_fn = "bp_final_test"
    /\ \E batch \in EvBatchesOf(ev_fn) :
          /\ TakeBatch(batch)
          /\ IF ev_string = "unbound"
             THEN /\ ev_pc' = "error"
                  /\ ev_err' = "UnboundLocalError"
                  /\ UNCHANGED <<ev_string, ev_final_result, ev_meters>>
             ELSE /\ ev_final_result' = Append(ev_final_result, ev_string)
                  /\ ev_string' = bp_final_test_line(batch[Len(batch)])
                  /\ UNCHANGED <<ev_pc, ev_err, ev_meters>>

\* one iteration of final_test of engine_for_finetuning
FtFinalTestLines ==
    /\ ev_fn = "ft_final_test"
    /\ \E batch \in EvBatchesOf(ev_fn) :
          /\ TakeBatch(batch)
          /\ ev_final_result' =
                ev_final_result \o [i \in DOMAIN batch |-> ft_final_test_line(batch[i])]
          /\ ev_string' = ft_final_test_line(batch[Len(batch)])
          /\ ev_meters' = ft_meter_updates(ev_meters,
                               accuracy(nouns_of(batch), noun_targets_of(batch), EvTopk),
                               Len(batch))
    /\ UNCHANGED <<ev_pc, ev_err>>

\* the accuracies of the last batch, which final_test writes as the first line
EvHeader ==
    IF ev_fn = "ft_final_test"
    THEN accuracy(nouns_of(ev_batch), noun_targets_of(ev_batch), EvTopk)
    ELSE <<ov_batch_accuracies(ev_batch).acc1_noun, ov_batch_accuracies(ev_batch).acc5_noun>>

\* after the loop: final_test writes the file, both functions return the averages
EvReturn ==
    /\ ev_pc = "running"
    /\ ev_idx = ev_loader_len
    /\ ev_pc' = "returned"
    /\ ev_file' = IF ev_fn = "ov_validation" THEN ev_file
                  ELSE [written |-> TRUE, header |-> EvHeader, lines |-> ev_final_result]
    /\ UNCHANGED <<ev_fn, ev_loader_len, ev_err, ev_idx, ev_taken, ev_batch, ev_before,
                   ev_meters, ev_string, ev_final_result>>
    /\ UNCHANGED notEv

NextEval ==
    \/ OvValidationMeters
    \/ OvFinalTestLines
    \/ BpFinalTestLines
    \/ FtFinalTestLines
    \/ EvReturn

SpecEval == InitEval /\ [][NextEval]_vars

\* the samples taken so far whose seen flag is v
TakenWith(v) == SelectSeq(ev_taken, LAMBDA x : x.seen = v)

\* 100 times the number of samples of rows that action_accuracy counts
\* correct at k = 1, as a fraction
ActionCorrect(rows) ==
    Frac(100 * Cardinality({b \in DOMAIN rows :
            action_accuracy(<<rows[b].noun>>, <<rows[b].verb>>,
                            <<ov_validation_action_target(rows[b].target[1],
                                                          rows[b].target[2])>>,
                            <<1>>)[1][1] = 100}), 1)

NounCorrect(rows, k) ==
    Frac(100 * Cardinality({b \in DOMAIN rows :
            accuracy(<<rows[b].noun>>, <<rows[b].target[1]>>, <<k>>)[1][1] = 100}), 1)

FracSum(x, y) == Frac(x[1] * y[2] + y[1] * x[2], x[2] * y[2])

OvPass == ev_fn \in {"ov_validation", "ov_final_test"}

SeenMeters == {"acc1_action_seen", "acc1_noun_seen", "acc5_noun_seen"}
UnseenMeters == {"acc1_action_unseen", "acc1_noun_unseen", "acc5_noun_unseen"}

\* C25: in validation_one_epoch and final_test of the open-vocabulary engine,
\* after any sequence of batches, every seen meter has counted the seen
\* samples and every unseen meter the unseen samples, every overall meter
\* has counted every sample once, the seen and unseen counts add up to the
\* overall count, the correct actions and nouns over seen samples plus those
\* over unseen samples are the overall numbers, and a batch without seen
\* (unseen) samples leaves the seen (unseen) meters as they were.
C25_SeenUnseenAccounting ==
    OvPass =>
        /\ \A m \in SeenMeters : ev_meters[m].count = Len(TakenWith(1))
        /\ \A m \in UnseenMeters : ev_meters[m].count = Len(TakenWith(0))
        /\ \A m \in {"acc1_action", "acc1_noun", "acc1_verb", "acc5_noun", "acc5_verb"} :
              ev_meters[m].count = Len(ev_taken)
        /\ ev_meters["acc1_action_seen"].count + ev_meters["acc1_action_unseen"].count
              = ev_meters["acc1_action"].count
        /\ FracEq(ev_meters["acc1_action_seen"].total, ActionCorrect(TakenWith(1)))
        /\ FracEq(ev_meters["acc1_action_unseen"].total, ActionCorrect(TakenWith(0)))
        /\ FracEq(FracSum(ev_meters["acc1_action_seen"].total,
                          ev_meters["acc1_action_unseen"].total),
                  ev_meters["acc1_action"].total)
        /\ FracEq(ev_meters["acc1_action"].total, ActionCorrect(ev_taken))
        /\ FracEq(FracSum(ev_meters["acc1_noun_seen"].total,
                          ev_meters["acc1_noun_unseen"].total),
                  ev_meters["acc1_noun"].total)
        /\ FracEq(ev_meters["acc1_noun"].total, NounCorrect(ev_taken, 1))
        /\ FracEq(FracSum(ev_meters["acc5_noun_seen"].total,
                          ev_meters["acc5_noun_unseen"].total),
                  ev_meters["acc5_noun"].total)
        /\ (\A b \in DOMAIN ev_batch : ev_batch[b].seen # 1) =>
              \A m \in SeenMeters : ev_meters[m] = ev_before[m]
        /\ (\A b \in DOMAIN ev_batch : ev_batch[b].seen # 0) =>
              \A m \in UnseenMeters : ev_meters[m] = ev_before[m]

\* two batches: a mixed one, then one with unseen samples only of which one
\* has its action right
C25_Witness ==
    /\ ev_fn = "ov_final_test"
    /\ ev_pc = "returned"
    /\ ev_idx = 2
    /\ Len(ev_taken) = 4
    /\ ev_taken[1].seen = 1 /\ ev_taken[2].seen = 0
    /\ \A b \in DOMAIN ev_batch : ev_batch[b].seen = 0
    /\ ev_meters["acc1_action_seen"].count = 1
    /\ ev_meters["acc1_action_unseen"].count = 3
    /\ ev_meters["acc1_action_seen"] = ev_before["acc1_action_seen"]
    /\ ev_meters["acc1_action_unseen"] # ev_before["acc1_action_unseen"]
    /\ FracEq(ev_meters["acc1_action"].total, Frac(200, 1))
    /\ FracEq(ev_meters["acc1_noun"].total, Frac(300, 1))

FinalTests == {"ov_final_test", "bp_final_test", "ft_final_test"}

\* the line final_test of the engine writes for a sample
LineOf(x) ==
    IF ev_fn = "ov_final_test" THEN ov_final_test_line(x)
    ELSE IF ev_fn = "bp_final_test" THEN bp_final_test_line(x)
    ELSE ft_final_test_line(x)

-----------------------------------------------------------------------------
(* SpecMerge: merge and compute_video of the three engines, on the lines   *)
(* final_test writes                                                       *)

\* most lines in the result files of one merge
MaxLines == 3

\* chunk and split numbers of the views: one and two digits
ViewNumbers == {1, 11}

\* the samples final_test wrote a line for: two videos, the label of a video
\* is the same on all its lines
MgSamples ==
    {EvSample([id |-> w, chunk |-> c, split |-> s], 0, n, v, <<0, 0>>) :
        w \in {"v1", "v2"}, c \in ViewNumbers, s \in ViewNumbers,
        n \in {<<2, 1>>}, v \in {<<2, 1>>, <<1, 2>>}}

\* the line final_test of the engine writes for a sample
written_line(engine, x) ==
    IF engine = "finetuning" THEN ft_final_test_line(x)
    ELSE IF engine = "both_prompt" THEN bp_final_test_line(x)
    ELSE ov_final_test_line(x)

\* np.fromstring(line.split('[')[i].split(']')[0], dtype=float, sep=',')
fromstring(field) == field.list

\* the fields merge reads back from a line of the prompt engines
composition_parse(line) ==
    [name |-> line[1],
     data_noun |-> fromstring(line[2]),
     data_verb |-> fromstring(line[3]),
     label_action |-> line[4],
     label_noun |-> line[5],
     label_verb |-> line[6],
     chunk_nb |-> line[7],
     split_nb |-> line[8]]

\* the fields merge of engine_for_finetuning reads back from a line
ft_parse(line) ==
    [name |-> line[1],
     data_noun |-> fromstring(line[2]),
     data_verb |-> fromstring(line[2]),
     label_action |-> line[3],
     label_noun |-> line[3],
     label_verb |-> line[3],
     chunk_nb |-> line[4],
     split_nb |-> line[5]]

parse_line(engine, line) ==
    IF engine = "finetuning" THEN ft_parse(line) ELSE composition_parse(line)

\* int(s) of a string of decimal digits
RECURSIVE int_of(_)
int_of(digits) ==
    IF digits = <<>> THEN 0 ELSE 10 * int_of(SubSeq(digits, 1, Len(digits) - 1))
                                  + digits[Len(digits)]

RECURSIVE pow2(_)
pow2(n) == IF n = 0 THEN 1 ELSE 2 * pow2(n - 1)

RECURSIVE SumOver(_, _)
SumOver(f, S) ==
    IF S = {} THEN 0 ELSE LET c == CHOOSE c \in S : TRUE IN f[c] + SumOver(f, S \ {c})

\* softmax(data): exponentials over their sum, strictly increasing in the
\* score.  The exponentials are taken to base 2, which keeps the values
\* rational and the order of the scores.
np_softmax(data) ==
    LET e == [c \in DOMAIN data |-> pow2(data[c])]
    IN  [c \in DOMAIN data |-> Frac(e[c], SumOver(e, DOMAIN data))]

\* chunk_nb + split_nb: two strings, concatenated
pos_key(chunk_nb, split_nb) == chunk_nb \o split_nb

\* dict[name] = value, for a name that may be new
dict_set(dict, name, value) ==
    [n \in (DOMAIN dict) \cup {name} |-> IF n = name THEN value ELSE dict[n]]

\* dict[name] if the name is there, otherwise the value it is created with
dict_get(dict, name, fresh) == IF name \in DOMAIN dict THEN dict[name] ELSE fresh

\* np.mean(feat, axis=0) of a list of score rows whose entries share one
\* denominator per row
RECURSIVE frac_sum(_)
frac_sum(q) ==
    IF q = <<>> THEN Frac(0, 1)
    ELSE LET r == frac_sum(Tail(q))
         IN  Frac(q[1][1] * r[2] + r[1] * q[1][2], q[1][2] * r[2])

np_mean(feat) ==
    [c \in DOMAIN feat[1] |->
        LET s == frac_sum([i \in DOMAIN feat |-> feat[i][c]])
        IN  Frac(s[1], s[2] * Len(feat))]

FracLess(x, y) == x[1] * y[2] < y[1] * x[2]

\* np.argmax: the first column with the largest value
np_argmax(feat) ==
    CHOOSE c \in DOMAIN feat :
        /\ \A d \in DOMAIN feat : ~FracLess(feat[c], feat[d])
        /\ \A d \in DOMAIN feat : d < c => FracLess(feat[d], feat[c])

\* label in np.argsort(-feat)[:k]: fewer than k columns are larger
in_top(feat, label, k) ==
    label \in DOMAIN feat /\ Cardinality({d \in DOMAIN feat : FracLess(feat[label], feat[d])}) < k

\* compute_video of the prompt engines
composition_compute_video(data_noun, data_verb, label, label_action) ==
    LET feat_noun == np_mean(data_noun)
        feat_verb == np_mean(data_verb)
        pred_noun == np_argmax(feat_noun)
        pred_verb == np_argmax(feat_verb)
        pred_action == ov_compute_video_pred_action(pred_verb, pred_noun)
        label_noun == int_of(label[1])
        label_verb == int_of(label[2])
    IN  [pred_noun |-> pred_noun,
         pred_verb |-> pred_verb,
         top1_action |-> (pred_action = int_of(label_action)),
         top5_action |-> (in_top(feat_noun, label_noun, EvTopk[2])
                            /\ in_top(feat_verb, label_verb, EvTopk[2])),
         top1_noun |-> (pred_noun = label_noun),
         top5_noun |-> in_top(feat_noun, label_noun, EvTopk[2]),
         top1_verb |-> (pred_verb = label_verb),
         top5_verb |-> in_top(feat_verb, label_verb, EvTopk[2])]

\* compute_video of engine_for_finetuning
ft_compute_video(data, label) ==
    LET feat == np_mean(data)
    IN  [pred |-> np_argmax(feat),
         top1 |-> (np_argmax(feat) = int_of(label)),
         top5 |-> in_top(feat, int_of(label), EvTopk[2])]

InitMerge ==
    /\ mg_engine \in Engines
    /\ \E n \in 1..MaxLines :
          \E xs \in [1..n -> MgSamples] :
             mg_lines = [i \in 1..n |-> written_line(mg_engine, xs[i])]
    /\ mg_pc = "reading"
    /\ mg_k = 0
    /\ mg_feats_noun = <<>>
    /\ mg_feats_verb = <<>>
    /\ mg_label = <<>>
    /\ mg_action_label = <<>>
    /\ mg_pos = <<>>
    /\ mg_ans = <<>>
    /\ IdleAcc /\ IdleEnc /\ IdlePs /\ IdleTr /\ IdleBl /\ IdleCe /\ IdleAt /\ IdleCx /\ IdleFw /\ IdleOs /\ IdleLg /\ IdleEv

\* merge: one pass of the loop over the lines
MergeLine ==
    /\ mg_pc = "reading"
    /\ mg_k < Len(mg_lines)
    /\ mg_k' = mg_k + 1
    /\ \E f \in {parse_line(mg_engine, mg_lines[mg_k + 1])} :
          IF pos_key(f.chunk_nb, f.split_nb) \in Range(dict_get(mg_pos, f.name, <<>>))
          THEN \* continue; a new name cannot get here
               UNCHANGED <<mg_feats_noun, mg_feats_verb, mg_label, mg_action_label, mg_pos>>
          ELSE /\ mg_feats_noun' =
                     dict_set(mg_feats_noun, f.name,
                              Append(dict_get(mg_feats_noun, f.name, <<>>),
                                     np_softmax(f.data_noun)))
               /\ mg_feats_verb' =
                     dict_set(mg_feats_verb, f.name,
                              Append(dict_get(mg_feats_verb, f.name, <<>>),
                                     np_softmax(f.data_verb)))
               /\ mg_pos' = dict_set(mg_pos, f.name,
                                     Append(dict_get(mg_pos, f.name, <<>>),
                                            pos_key(f.chunk_nb, f.split_nb)))
               /\ mg_label' = dict_set(mg_label, f.name, <<f.label_noun, f.label_verb>>)
               /\ mg_action_label' = dict_set(mg_action_label, f.name, f.label_action)
    /\ UNCHANGED <<mg_engine, mg_lines, mg_pc, mg_ans>>
    /\ UNCHANGED notMg

\* merge after the loop: p.map(compute_video, input_lst)
ComputeVideos ==
    /\ mg_pc = "reading"
    /\ mg_k = Len(mg_lines)
    /\ mg_pc' = "done"
    /\ mg_ans' = [n \in DOMAIN mg_feats_noun |->
                     IF mg_engine = "finetuning"
                     THEN ft_compute_video(mg_feats_noun[n], mg_label[n][1])
                     ELSE composition_compute_video(mg_feats_noun[n], mg_feats_verb[n],
                                                    mg_label[n], mg_action_label[n])]
    /\ UNCHANGED <<mg_engine, mg_lines, mg_k, mg_feats_noun, mg_feats_verb, mg_label,
                   mg_action_label, mg_pos>>
    /\ UNCHANGED notMg

NextMerge == MergeLine \/ ComputeVideos

SpecMerge == InitMerge /\ [][NextMerge]_vars

\* the lines read so far
ReadLines == SubSeq(mg_lines, 1, mg_k)

\* the view of a line: name, chunk number and split number
ViewOf(line) ==
    LET f == parse_line(mg_engine, line) IN <<f.name, int_of(f.chunk_nb), int_of(f.split_nb)>>

\* the positions of the lines read so far that are the first of their view
FirstOfView == {i \in 1..mg_k : \A j \in 1..(i - 1) : ViewOf(mg_lines[j]) # ViewOf(mg_lines[i])}

\* C27: in merge of each of the three engines, after any number of lines, the
\* list of scores of a video holds one entry per distinct (video name, chunk
\* number, split number) among the lines read: a repeated line of a view
\* adds nothing and two lines of a video that differ in (chunk number, split
\* number) both add their scores.
C27_OncePerView ==
    \A name \in {ViewOf(mg_lines[i])[1] : i \in 1..mg_k} :
        /\ name \in DOMAIN mg_feats_noun
        /\ Len(mg_feats_noun[name])
              = Cardinality({i \in FirstOfView : ViewOf(mg_lines[i])[1] = name})

\* C28: for a video with a single line in the result files of a prompt
\* engine, compute_video's top1_action and top5_action are true exactly when
\* action_accuracy counts the sample correct at the first and at the second
\* entry of topk, on the scores and labels final_test wrote.
C28_MergedLikePerBatch ==
    (mg_pc = "done" /\ mg_engine \in {"both_prompt", "prompt_OV"}) =>
        \A i \in 1..Len(mg_lines) :
            LET f == composition_parse(mg_lines[i])
                a == action_accuracy(<<f.data_noun>>, <<f.data_verb>>,
                                     <<int_of(f.label_action)>>, EvTopk)
            IN  (\A j \in 1..Len(mg_lines) : j # i => composition_parse(mg_lines[j]).name # f.name)
                    => /\ mg_ans[f.name].top1_action = (a[1][1] = 100)
                       /\ mg_ans[f.name].top5_action = (a[2][1] = 100)

====
